---- MODULE Spec2Model ----
(***************************************************************************)
(* Model of the progressive-disclosure extraction engine of                *)
(* src/app/packages/DataRequester.py: the snapshot hierarchy extractor,    *)
(* the expansion engine and the node fingerprinter.                        *)
(***************************************************************************)
EXTENDS Integers, Sequences, FiniteSets, TLC

\* ------------------------------------------------------------------------
\* Bounds of the model
\* ------------------------------------------------------------------------
\* longest enumerated snapshot (rows in document order)
MaxRows == 3

\* longest enumerated short node text, in characters
MaxShortText == 2
\* longest enumerated region, in expandable or collapsed nodes
MaxNodes == 2
\* length of the regions that stand for a tree larger than every budget
LongLen == 160
\* longest enumerated list of table entries
MaxTables == 2
\* largest enumerated number of attempts per table
MaxRetries == 2
\* page visits the engine is followed through
MaxVisits == 2
\* longest enumerated field name, in characters
MaxNameLen == 4
\* longest enumerated field list of a file given to the normaliser
MaxFields == 2
\* number of calls a DataRequester is followed through
MaxCalls == 4
\* number of calls a DataWrangler is followed through
MaxOps == 2

\* ------------------------------------------------------------------------
\* Node fingerprinter: _get_element_identifier.  Texts, tags and class
\* attributes are sequences of characters.
\* ------------------------------------------------------------------------
TextLimit == 100
IdTextLimit == 30

Min(a, b) == IF a < b THEN a ELSE b

\* s[:n]
Prefix(s, n) == SubSeq(s, 1, Min(n, Len(s)))

\* s.replace("\n", " ")
ReplaceNewlines(s) == [i \in 1..Len(s) |-> IF s[i] = "\n" THEN " " ELSE s[i]]

\* s.strip()
Whitespace == {" ", "\n", "\t"}
RECURSIVE LStrip(_)
LStrip(s) == IF Len(s) > 0 /\ s[1] \in Whitespace THEN LStrip(Tail(s)) ELSE s
RECURSIVE RStrip(_)
RStrip(s) ==
  IF Len(s) > 0 /\ s[Len(s)] \in Whitespace THEN RStrip(SubSeq(s, 1, Len(s) - 1)) ELSE s
Strip(s) == RStrip(LStrip(s))

\* text_content as computed at lines 736-737
TextContent(text) == Strip(ReplaceNewlines(Prefix(text, TextLimit)))

\* str(n) of a non-negative integer
Digit(d) == <<"0", "1", "2", "3", "4", "5", "6", "7", "8", "9">>[d + 1]
RECURSIVE Str(_)
Str(n) == IF n < 10 THEN <<Digit(n)>> ELSE Str(n \div 10) \o <<Digit(n % 10)>>

\* "|".join(identifier_parts) (lines 740-749)
Identifier(el) ==
  <<"t", "a", "g", ":">> \o el.tag
  \o <<"|", "t", "e", "x", "t", ":">> \o TextContent(el.text)
  \o <<"|", "c", "l", "a", "s", "s", "e", "s", ":">> \o el.classes
  \o <<"|", "l", "o", "c", ":">> \o Str(el.x) \o <<",">> \o Str(el.y)

\* hashlib.md5(identifier.encode()).hexdigest()[:16]: the digest cannot be
\* computed here; it is taken to be free of collisions on the identifiers
\* of the model
Md5Hex16(identifier) == <<"md5">> \o identifier

\* variant of GetElementIdentifier: the position left out of the identifier
GetElementIdentifier_NoLoc(el) ==
  [hash |-> Md5Hex16(Identifier([el EXCEPT !.x = 0, !.y = 0])),
   text |-> Prefix(TextContent(el.text), IdTextLimit)]

\* final_id (lines 750-753), when every attribute read succeeds
GetElementIdentifier(el) ==
  [hash |-> Md5Hex16(Identifier(el)),
   text |-> Prefix(TextContent(el.text), IdTextLimit)]

\* the identifier returned when an attribute read raises (line 757):
\* built from the handle object only
FallbackIdentifier(handle) == [hash |-> <<"fallback", handle>>, text |-> <<>>]

\* nodes the fingerprinter is run on
Pad(n) == [i \in 1..n |-> "a"]
Tags == {<<"i">>, <<"d", "i", "v">>}
ShortTexts == UNION {[1..n -> {"a", " ", "\n"}] : n \in 0..MaxShortText}
LongTexts ==
  {Pad(TextLimit) \o sfx : sfx \in {<<>>, <<"a">>, <<"b">>}}
  \cup {Pad(IdTextLimit) \o sfx : sfx \in {<<"a">>, <<"b">>}}
Texts == ShortTexts \cup LongTexts
ClassAttrs == {<<>>, <<"c">>}
XPositions == {0, 1}
YPositions == {0, 10}
Handles == {"h1", "h2"}
FpNodes ==
  [tag : Tags, text : Texts, classes : ClassAttrs, x : XPositions, y : YPositions]

\* ------------------------------------------------------------------------
\* Snapshot rows.  A row is what BeautifulSoup finds for one element with a
\* data-test containing "schema":
\*   name    text of its first property-name element (NoElem: none)
\*   ptype   text of its property-type element (NoElem: none)
\*   muted   texts of its span.sl-text-muted elements, document order
\*   desc    text of its property-description element (NoElem: none)
\*   prose   texts of its sl-prose / sl-markdown-viewer / description elements
\*   anc     data-level attribute of its ancestors, nearest first (NoAttr: none)
\*   pclass  CSS classes of its parent
\* ------------------------------------------------------------------------
NoElem == "<none>"
NoAttr == "<noattr>"

\* str.lower() on the texts the model uses
Lower(s) ==
  CASE s = "Content" -> "content"
    [] s = "Page" -> "page"
    [] s = "totalElements" -> "totalelements"
    [] s = "totalPages" -> "totalpages"
    [] s = "Object" -> "object"
    [] s = "Array[Object]" -> "array[object]"
    [] OTHER -> s

\* str.isdigit() and int() on data-level attribute values
DigitStrings == <<"0", "1", "2", "3", "4", "5", "6", "7", "8", "9", "10", "11">>
IsDigit(s) == \E k \in 1..Len(DigitStrings) : DigitStrings[k] = s
ToInt(s) == (CHOOSE k \in 1..Len(DigitStrings) : DigitStrings[k] = s) - 1

PaginationNames == {"page", "size", "totalelements", "totalpages"}
CompositeTypes == {"object", "array[object]"}
TypeWords == {"string", "number", "integer", "boolean", "array", "object"}
\* any(type_word in text.lower() for type_word in [...]) on the muted texts used
HasTypeWord(t) == Lower(t) \in TypeWords \cup {"array[object]", "array[string]"}

max_attempts == 5
MaxPushLevel == 10

\* variant of WalkLevel: the walk goes up to the last ancestor
RECURSIVE WalkLevel_NoLimit(_, _)
WalkLevel_NoLimit(anc, k) ==
  IF k > Len(anc) THEN -1
  ELSE IF anc[k] # NoAttr /\ anc[k] # "" /\ IsDigit(anc[k]) THEN ToInt(anc[k])
  ELSE WalkLevel_NoLimit(anc, k + 1)

\* _detect_level_from_parent
RECURSIVE WalkLevel(_, _)
WalkLevel(anc, k) ==
  IF k > Len(anc) \/ k > max_attempts THEN -1
  ELSE IF anc[k] # NoAttr /\ anc[k] # "" /\ IsDigit(anc[k]) THEN ToInt(anc[k])
  ELSE WalkLevel(anc, k + 1)

DetectLevelFromParent(row) ==
  LET found == WalkLevel(row.anc, 1) IN
  IF found >= 0 THEN found
  ELSE IF "sl-ml-7" \in row.pclass THEN 1
  ELSE IF "sl-ml-px" \in row.pclass THEN 0
  ELSE 0

\* type and description lookup shared by the extraction passes
RECURSIVE FirstTypeWord(_, _)
FirstTypeWord(muted, k) ==
  IF k > Len(muted) THEN "unknown"
  ELSE IF HasTypeWord(muted[k]) THEN muted[k]
  ELSE FirstTypeWord(muted, k + 1)

FieldTypeOf(row) ==
  IF row.ptype # NoElem THEN row.ptype ELSE FirstTypeWord(row.muted, 1)

DescriptionOf(row) ==
  IF row.desc # NoElem THEN row.desc
  ELSE IF Len(row.prose) > 0 THEN row.prose[1]
  ELSE ""

\* "_".join(parts)
RECURSIVE JoinUnderscore(_)
JoinUnderscore(parts) ==
  IF Len(parts) = 0 THEN ""
  ELSE IF Len(parts) = 1 THEN parts[1]
  ELSE parts[1] \o "_" \o JoinUnderscore(Tail(parts))

\* ------------------------------------------------------------------------
\* Expansion engine: the live region.  A node of the region is a row with
\* its expand affordance, or a collapsed leaf:
\*   el         tag, text, class attribute and position of the element the
\*              engine fingerprints (the chevron icon, or the muted leaf)
\*   chevron    it matches the chevron-right selectors
\*   muted      it matches .sl-truncate.sl-text-muted
\*   inContent  it lies inside the content container
\*   displayed  is_displayed()
\*   ptype      text of the property-type element of its row (NoElem: none)
\*   parent     it has a clickable ancestor (role=button, sl-cursor-pointer
\*              or tabindex=0)
\*   click      the first click attempt that is accepted: "direct" (UI click
\*              on the clickable element), "js" (script click on it), "icon"
\*              (script click on the icon itself) or "none"
\*   grows      a click on it adds property-name elements
\* ------------------------------------------------------------------------
max_expansions == 50
max_object_expansions == 30
max_array_object_expansions == 20
original_max_expansions == 50
scroll_step == 200
MaxScrollSteps == 15
MaxClicksPerStep == 3

Node(tag, y, chevron, muted, inContent, displayed, ptype, parent, click, grows) ==
  [el |-> [tag |-> tag, text |-> <<>>, classes |-> <<"c">>, x |-> 0, y |-> y],
   chevron |-> chevron, muted |-> muted, inContent |-> inContent,
   displayed |-> displayed, ptype |-> ptype, parent |-> parent,
   click |-> click, grows |-> grows]

IconTag == <<"i">>
LeafTag == <<"d", "i", "v">>

NodeKinds ==
  { Node(IconTag, 0, TRUE, FALSE, TRUE, TRUE, "object", TRUE, "direct", TRUE),
    Node(IconTag, 0, TRUE, FALSE, TRUE, TRUE, "object", TRUE, "direct", FALSE),
    Node(IconTag, 10, TRUE, FALSE, TRUE, TRUE, "array[object]", TRUE, "js", TRUE),
    Node(IconTag, 10, TRUE, FALSE, FALSE, TRUE, "object", FALSE, "icon", TRUE),
    Node(IconTag, 0, TRUE, FALSE, FALSE, TRUE, "string", TRUE, "direct", TRUE),
    Node(IconTag, 0, TRUE, FALSE, TRUE, FALSE, "object", TRUE, "direct", TRUE),
    Node(IconTag, 10, TRUE, FALSE, TRUE, TRUE, "Array[Object]", TRUE, "none", TRUE),
    Node(IconTag, 10, TRUE, FALSE, FALSE, TRUE, NoElem, TRUE, "direct", FALSE),
    Node(LeafTag, 0, FALSE, TRUE, FALSE, TRUE, "string", TRUE, "direct", TRUE),
    Node(LeafTag, 10, FALSE, TRUE, FALSE, TRUE, "string", TRUE, "js", TRUE),
    Node(IconTag, 0, TRUE, TRUE, TRUE, TRUE, "object", TRUE, "direct", TRUE),
    Node(IconTag, 20, TRUE, FALSE, TRUE, TRUE, "object", TRUE, "icon", TRUE) }

\* a region of n nodes alike but for their positions
LongRegion(kind, n) == [i \in 1..n |-> [kind EXCEPT !.el.y = i]]

LongKinds ==
  { Node(IconTag, 0, TRUE, FALSE, TRUE, TRUE, "array[object]", TRUE, "direct", TRUE),
    Node(IconTag, 0, TRUE, FALSE, TRUE, TRUE, "array[object]", TRUE, "direct", FALSE),
    Node(LeafTag, 0, FALSE, TRUE, FALSE, TRUE, "string", TRUE, "direct", TRUE) }

Regions ==
  UNION {[1..n -> NodeKinds] : n \in 0..MaxNodes}
  \cup {LongRegion(k, LongLen) : k \in LongKinds}

\* what the engine finds around the nodes:
\*   schema_rows  number of div[data-test="schema-row"] in the region
\*   locate       how the content container is found: "xpath" (line 240),
\*                "second" (XPath raised, second data-level=1 container,
\*                line 258), "none" (fewer than two such containers),
\*                "raise" (a driver call of lines 271-286 raised)
\*   final_raise  the closing scroll to the top raises (line 359)
\*   orig_raise   a driver call of the positional fallback outside its
\*                per-element handler raises (lines 377, 383, 386)
\*   height       scrollHeight of the region
Surroundings ==
  {e \in [schema_rows : {1, 2}, locate : {"xpath", "second", "none", "raise"},
          final_raise : BOOLEAN, orig_raise : BOOLEAN, height : {0, 300, 5000}] :
     /\ e.orig_raise => e.height = 300
     /\ \/ /\ e.schema_rows = 2 /\ e.locate \in {"xpath", "second"}
            /\ ~e.final_raise /\ ~e.orig_raise /\ e.height = 300
        \/ e.schema_rows = 2 /\ e.locate = "xpath" /\ e.final_raise
        \/ e.schema_rows = 2 /\ e.locate \in {"none", "raise"} /\ ~e.final_raise /\ e.height = 300
        \/ e.schema_rows = 1 /\ e.locate = "xpath" /\ ~e.final_raise}

\* 'array[object]' in type_text.lower() on the type texts used
ContainsArrayObject(t) == t # NoElem /\ Lower(t) = "array[object]"

\* the candidates of each strategy, as indexes of the region in document order
InOrder(S) ==
  [j \in 1..Cardinality(S) |-> CHOOSE k \in S : Cardinality({i \in S : i <= k}) = j]

ClickableElements(nodes) ==
  InOrder({k \in 1..Len(nodes) : nodes[k].chevron /\ nodes[k].inContent})

AllExpandableButtons(nodes) == InOrder({k \in 1..Len(nodes) : nodes[k].chevron})

ArrayObjectElements(nodes) ==
  InOrder({k \in 1..Len(nodes) : ContainsArrayObject(nodes[k].ptype)})

CollapsedElements(nodes) == InOrder({k \in 1..Len(nodes) : nodes[k].muted})

\* the click attempts of each strategy, in the order of the nested try
\* blocks: lines 314-325 (scoped), 526-545 and 678-694 (typed), 407-408
\* (positional)
ScopedOrder == <<"direct", "js">>
TypedOrder == <<"direct", "js", "icon">>
OriginalOrder == <<"direct">>

\* the attempts made on a node: each one after the one before it failed, up
\* to the first that the node accepts
Accepted(order, n) == \E k \in 1..Len(order) : order[k] = n.click
Attempts(order, n) ==
  IF Accepted(order, n)
  THEN SubSeq(order, 1, CHOOSE k \in 1..Len(order) : order[k] = n.click)
  ELSE order

\* the click escalation of each strategy: is some attempt accepted
ScopedClickSucceeds(n) == Accepted(ScopedOrder, n)
TypedClickSucceeds(n) == Accepted(TypedOrder, n)
OriginalClickSucceeds(n) == Accepted(OriginalOrder, n)

\* variant of MaxSteps: the ceiling of 15 left out
MaxSteps_NoCeiling(height) == (height \div scroll_step) + 2

\* min(int(container_height / scroll_step) + 2, 15)
MaxSteps(height) == Min((height \div scroll_step) + 2, MaxScrollSteps)

\* ------------------------------------------------------------------------
\* Hierarchical extraction passes
\* ------------------------------------------------------------------------
\* soup.find_all("div", data-test contains "schema"): every element of the
\* snapshot is such a row
SchemaRows(snap) == snap

IsContentName(name) == name # NoElem /\ Lower(name) = "content"

\* first loop of _extract_fields_with_hierarchy: index of the first row
\* whose first property-name reads "content" (0: none)
RECURSIVE ContentFieldIndex(_, _)
ContentFieldIndex(all_schema_rows, i) ==
  IF i > Len(all_schema_rows) THEN 0
  ELSE IF IsContentName(all_schema_rows[i].name) THEN i
  ELSE ContentFieldIndex(all_schema_rows, i + 1)

\* variant of AdjustedLevel: the content-mode shift left out
AdjustedLevel_NoShift(level, has_content_field, field_name) == level

\* level adjustment of content mode (lines 866-873)
AdjustedLevel(level, has_content_field, field_name) ==
  IF has_content_field /\ Lower(field_name) # "content"
  THEN (IF level > 0 THEN level - 1 ELSE level)
  ELSE level

\* variant of NoFieldName: an empty name text counts as a name
NoFieldName_ElementOnly(row) == row.name = NoElem

\* the row has no property-name element, or its text is empty (lines 852-858
\* and 1109-1115): the loop goes on with the next row
NoFieldName(row) == row.name = NoElem \/ row.name = ""

\* second loop of _extract_fields_with_hierarchy: builds field_hierarchy and
\* stops at the first pagination field
RECURSIVE BuildHierarchy(_, _, _)
BuildHierarchy(relevant_rows, k, has_content_field) ==
  IF k > Len(relevant_rows) THEN <<>>
  ELSE LET row == relevant_rows[k] IN
    IF NoFieldName(row)
    THEN BuildHierarchy(relevant_rows, k + 1, has_content_field)
    ELSE IF Lower(row.name) \in PaginationNames THEN <<>>
    ELSE <<[level |-> AdjustedLevel(DetectLevelFromParent(row), has_content_field, row.name),
            name |-> row.name, row |-> row, idx |-> k]>>
         \o BuildHierarchy(relevant_rows, k + 1, has_content_field)

\* first loop of _extract_all_fields_fallback: pagination fields are skipped
RECURSIVE BuildHierarchyFallback(_, _)
BuildHierarchyFallback(all_schema_rows, k) ==
  IF k > Len(all_schema_rows) THEN <<>>
  ELSE LET row == all_schema_rows[k] IN
    IF NoFieldName(row)
    THEN BuildHierarchyFallback(all_schema_rows, k + 1)
    ELSE IF Lower(row.name) \in PaginationNames
    THEN BuildHierarchyFallback(all_schema_rows, k + 1)
    ELSE <<[level |-> DetectLevelFromParent(row), name |-> row.name,
            row |-> row, idx |-> k]>>
         \o BuildHierarchyFallback(all_schema_rows, k + 1)

\* variant of PopTo: pops one entry too few
PopTo_OneShort(parent_stack, level) ==
  IF Len(parent_stack) > level + 1 THEN SubSeq(parent_stack, 1, level + 1) ELSE parent_stack

\* while len(parent_stack) > level: parent_stack.pop()
PopTo(parent_stack, level) ==
  IF Len(parent_stack) > level THEN SubSeq(parent_stack, 1, level) ELSE parent_stack

\* state of the naming loop: parent_stack, processed_fields, fields_data.
\* Kept beside them, for stating properties: for each record of fields_data
\* the name components it was joined from (paths) and the index of its row
\* (from); for each item of field_hierarchy the prefixed name it produced
\* (made), the length of parent_stack when it was named (depths) and whether
\* it was appended to parent_stack (pushed)
InitNaming ==
  [stack |-> <<>>, seen |-> {}, out |-> <<>>, paths |-> <<>>, from |-> <<>>,
   made |-> <<>>, depths |-> <<>>, pushed |-> <<>>]

\* variant of PushesParent: the level of the field is not looked at
PushesParent_AnyLevel(field_type, level, wrapper) ==
  Lower(field_type) \in CompositeTypes /\ ~wrapper

\* variant of PushesParent: the type of the field is not looked at
PushesParent_AnyType(field_type, level, wrapper) == level < MaxPushLevel /\ ~wrapper

\* a field is pushed as a parent (lines 971-973, 1196-1197)
PushesParent(field_type, level, wrapper) ==
  Lower(field_type) \in CompositeTypes /\ level < MaxPushLevel /\ ~wrapper

\* the record appended to fields_data (lines 953-959, 1178-1184)
FieldData(prefixed_name, item) ==
  [name |-> prefixed_name, description |-> DescriptionOf(item.row),
   field_type |-> FieldTypeOf(item.row), original_name |-> item.name,
   hierarchy_level |-> item.level]

\* variant of NameStep: the duplicate check left out
NameStep_NoDedup(st, item, has_content_field) ==
  LET wrapper == has_content_field /\ Lower(item.name) = "content"
      stack == PopTo(st.stack, item.level)
      comps == IF Len(stack) > 0 /\ ~wrapper THEN stack \o <<item.name>> ELSE <<item.name>>
      prefixed_name == JoinUnderscore(comps)
  IN [stack |-> IF PushesParent(FieldTypeOf(item.row), item.level, wrapper)
                THEN Append(stack, item.name) ELSE stack,
      seen |-> st.seen \cup {prefixed_name},
      out |-> Append(st.out, FieldData(prefixed_name, item)),
      paths |-> Append(st.paths, comps),
      from |-> Append(st.from, item.idx),
      made |-> Append(st.made, prefixed_name),
      depths |-> Append(st.depths, Len(stack)),
      pushed |-> Append(st.pushed, PushesParent(FieldTypeOf(item.row), item.level, wrapper))]

\* one iteration of the naming loop (lines 897-978 and 1139-1201);
\* has_content_field is FALSE in _extract_all_fields_fallback
NameStep(st, item, has_content_field) ==
  LET wrapper == has_content_field /\ Lower(item.name) = "content"
      stack == PopTo(st.stack, item.level)
      comps == IF Len(stack) > 0 /\ ~wrapper THEN stack \o <<item.name>> ELSE <<item.name>>
      prefixed_name == JoinUnderscore(comps)
  IN IF prefixed_name \in st.seen
     THEN [st EXCEPT !.stack = stack, !.made = Append(st.made, prefixed_name),
                     !.depths = Append(st.depths, Len(stack)),
                     !.pushed = Append(st.pushed, FALSE)]
     ELSE [stack |-> IF PushesParent(FieldTypeOf(item.row), item.level, wrapper)
                     THEN Append(stack, item.name) ELSE stack,
           seen |-> st.seen \cup {prefixed_name},
           out |-> Append(st.out, FieldData(prefixed_name, item)),
           paths |-> Append(st.paths, comps),
           from |-> Append(st.from, item.idx),
           made |-> Append(st.made, prefixed_name),
           depths |-> Append(st.depths, Len(stack)),
           pushed |-> Append(st.pushed, PushesParent(FieldTypeOf(item.row), item.level, wrapper))]

RECURSIVE NamingLoop(_, _, _, _)
NamingLoop(st, field_hierarchy, k, has_content_field) ==
  IF k > Len(field_hierarchy) THEN st
  ELSE NamingLoop(NameStep(st, field_hierarchy[k], has_content_field),
                  field_hierarchy, k + 1, has_content_field)

\* variant of KeptIndexes: the final filter left out
KeptIndexes_All(out, k) == [j \in 1..Len(out) |-> j]

\* indexes of the records kept by the final filter of content mode
\* (line 984): field['name'].lower() != 'content'
RECURSIVE KeptIndexes(_, _)
KeptIndexes(out, k) ==
  IF k > Len(out) THEN <<>>
  ELSE (IF Lower(out[k].name) # "content" THEN <<k>> ELSE <<>>) \o KeptIndexes(out, k + 1)

Pick(seq, idxs) == [j \in 1..Len(idxs) |-> seq[idxs[j]]]

\* variant of RelevantRows: the rows before the content row are kept
RelevantRows_All(all_schema_rows, content_field_index) == all_schema_rows

\* relevant_rows = all_schema_rows[content_field_index:] with a content row,
\* all_schema_rows without (lines 835-842)
RelevantRows(all_schema_rows, content_field_index) ==
  IF content_field_index > 0
  THEN SubSeq(all_schema_rows, content_field_index, Len(all_schema_rows))
  ELSE all_schema_rows

\* _extract_fields_with_hierarchy(soup, content_schema_row): the records,
\* with the components and the snapshot row index of each
ExtractFieldsWithHierarchy(snapshot) ==
  LET all_schema_rows == SchemaRows(snapshot)
      content_field_index == ContentFieldIndex(all_schema_rows, 1)
      has_content_field == content_field_index > 0
      relevant_rows == RelevantRows(all_schema_rows, content_field_index)
      offset == Len(all_schema_rows) - Len(relevant_rows)
      field_hierarchy == BuildHierarchy(relevant_rows, 1, has_content_field)
      st == NamingLoop(InitNaming, field_hierarchy, 1, has_content_field)
      kept == IF has_content_field THEN KeptIndexes(st.out, 1)
              ELSE [j \in 1..Len(st.out) |-> j]
  IN [fields |-> Pick(st.out, kept),
      paths |-> Pick(st.paths, kept),
      from |-> [j \in 1..Len(kept) |-> st.from[kept[j]] + offset],
      hierarchy |-> field_hierarchy, made |-> st.made, depths |-> st.depths,
      pushed |-> st.pushed,
      has_content |-> has_content_field]

\* _extract_all_fields_fallback(soup), when nothing is raised outside its loops
ExtractAllFieldsFallback(snapshot) ==
  LET all_schema_rows == SchemaRows(snapshot)
      field_hierarchy == BuildHierarchyFallback(all_schema_rows, 1)
      st == NamingLoop(InitNaming, field_hierarchy, 1, FALSE)
  IN [fields |-> st.out, paths |-> st.paths, from |-> st.from,
      hierarchy |-> field_hierarchy, made |-> st.made, depths |-> st.depths,
      pushed |-> st.pushed,
      has_content |-> FALSE]

\* _extract_simple_fields_fallback(soup): one record per distinct name text,
\* type and description read from the row the name element lies in
RECURSIVE SimpleLoop(_, _, _)
SimpleLoop(snapshot, k, seen_names) ==
  IF k > Len(snapshot) THEN <<>>
  ELSE LET el == snapshot[k] IN
    IF el.name = NoElem \/ el.name = "" \/ el.name \in seen_names
    THEN SimpleLoop(snapshot, k + 1, seen_names)
    ELSE <<[rec |-> [name |-> el.name, description |-> DescriptionOf(el),
                     field_type |-> FieldTypeOf(el)],
            idx |-> k]>>
         \o SimpleLoop(snapshot, k + 1, seen_names \cup {el.name})

ExtractSimpleFieldsFallback(snapshot) ==
  LET found == SimpleLoop(snapshot, 1, {}) IN
  [fields |-> [j \in 1..Len(found) |-> found[j].rec],
   paths |-> [j \in 1..Len(found) |-> <<found[j].rec.name>>],
   from |-> [j \in 1..Len(found) |-> found[j].idx],
   hierarchy |-> <<>>, made |-> <<>>, depths |-> <<>>, pushed |-> <<>>,
   has_content |-> FALSE]

\* ------------------------------------------------------------------------
\* Snapshots the extractor is run on
\* ------------------------------------------------------------------------
Row(name, ptype, lvl) ==
  [name |-> name, ptype |-> ptype, muted |-> <<>>, desc |-> NoElem,
   prose |-> <<>>, anc |-> <<lvl>>, pclass |-> {}]

BaseRows ==
  {Row(n, t, l) : n \in {"a", "content"}, t \in {"object", "string"}, l \in {"0", "1", "2"}}
  \cup {Row("page", "integer", l) : l \in {"0", "1"}}

ExtraRows ==
  { Row("Content", "object", "0"),
    Row("totalElements", "integer", "0"),
    Row("b", "array[object]", "0"),
    Row("b", "Array[Object]", "1"),
    Row("b", "object", "10"),
    [Row("a", "string", "0") EXCEPT !.desc = "d"],
    Row(NoElem, "string", "0"),
    Row("", "string", "1"),
    [Row("b", NoElem, NoAttr) EXCEPT !.muted = <<"required", "integer">>,
                                     !.prose = <<"p">>, !.pclass = {"sl-ml-7"}],
    [Row("a", "string", NoAttr) EXCEPT
        !.anc = <<NoAttr, "x", NoAttr, NoAttr, NoAttr, "2">>, !.pclass = {"sl-ml-px"}],
    [Row("a", "string", NoAttr) EXCEPT
        !.anc = <<NoAttr, "x", "2", "1">>, !.pclass = {"sl-ml-7"}] }

RowSet == BaseRows \cup ExtraRows

\* the row lists of the documented examples
HierarchyFixture ==
  <<Row("a", "object", "0"), Row("b", "string", "1"),
    Row("c", "object", "1"), Row("d", "string", "2")>>
PaginationFixture ==
  <<Row("field1", "string", "0"), Row("page", "integer", "0"), Row("field2", "string", "0")>>
ContentFixture ==
  <<Row("content", "object", "0"), Row("x", "string", "1"), Row("page", "integer", "0")>>
\* a chain of objects, each one level below the one before it, from level
\* 0 to the highest level the model writes as a data-level value; the last
\* one has a name of its own
DeepFixture ==
  [k \in 1..Len(DigitStrings) |->
     Row(IF k < Len(DigitStrings) THEN "a" ELSE "b", "object", DigitStrings[k])]
Fixtures == {HierarchyFixture, PaginationFixture, ContentFixture, DeepFixture}

Snapshots == UNION {[1..n -> RowSet] : n \in 0..MaxRows} \cup Fixtures

\* ------------------------------------------------------------------------
\* State
\* ------------------------------------------------------------------------
VARIABLES
  region,                  \* engine: the nodes of the live region, document order
  around,                  \* what the engine finds around them
  epc,                     \* position of the engine
  cands,                   \* the candidate list of the running loop
  ei,                      \* index of the next candidate in cands
  clicked_elements,        \* the set of fingerprints marked as clicked
  expanded_count,          \* counter of _expand_collapsed_elements_in_container
  object_expanded_count,   \* counter of _expand_object_fields
  array_object_expanded_count, \* counter of _expand_array_object_fields
  orig_expanded_count,     \* counter of _expand_collapsed_elements_original
  step,                    \* scroll step of the positional fallback
  current_scroll,          \* its scroll position
  processed_count,         \* its clicks in the current step
  clicks,                  \* number of clicks performed in this invocation
  clicked_once,            \* fingerprints clicked at least once in it
  clicked_twice,           \* fingerprints clicked more than once in it
  ret,                     \* what the engine returned to its caller
  visit,                   \* number of the page visit the engine runs in
  clicked_before,          \* fingerprints clicked in the earlier visits
  last_try,                \* the click attempts of the last loop iteration

  wname,      \* normaliser: a field name given to camel_to_snake_case
  wdata,      \* the file content given to normalize_field_names
  wout,       \* what the normaliser returned
  wpc,        \* "input", "done", or "idle"

  tables_data,    \* orchestrator: the table entries given to extract_api_documentation
  max_retries,    \* attempts per table
  driver,         \* "none": never created, "dead": created but not answering, "active"
  ti,             \* index of the table entry being processed
  attempt,        \* attempt of _extract_fields_from_url, from 0
  fields_data,    \* what _extract_fields_from_url returned for the entry
  extracted_data, \* the mapping built by extract_api_documentation
  files,          \* the output directory: file name -> content
  visits,         \* per processed entry: its table, its result, what the save did
  surfaced,       \* the exception that left extract_api_documentation, or "none"
  rpc,            \* "start", "table", "attempt", "got", "done", "failed", or "idle"

  apc,        \* attempt loop: the statement _extract_fields_from_url is at
  session,    \* what the running attempt did so far, in order
  outcomes,   \* how each finished attempt ended
  loads,      \* number of driver.get calls of this _extract_fields_from_url call

  dpc,        \* lifecycle: "ready" between calls, "extract" inside the loop of
              \* extract_api_documentation, or "idle"
  dlog,       \* what the calls on the DataRequester did so far, in order
  quits,      \* number of driver.quit() calls

  fs,         \* wrangler: the files on the disk, path -> what the file holds
  fs0,      \* the files when the DataWrangler was created
  detected,   \* what the last detect_files returned
  written,    \* the paths the DataWrangler has written to
  asked,      \* the filenames normalize_single_file was given
  gops,       \* number of calls made on the DataWrangler
  gpc,        \* "ready", or "idle"

  node,       \* fingerprinter: the attributes of the UI node as rendered now
  handle,     \* the handle object the node is reached through
  node0,      \* its attributes at the first fingerprint call
  id1, id2,   \* what the first and the second call returned
  ok1, ok2,   \* whether the attribute reads of each call succeeded
  fpc,        \* "fresh", "called1", "rerendered", "called2", or "idle"

  snapshot,   \* rows of the captured container markup, document order
  xpc,        \* "snapshot": captured, "done": _extract_fields_from_container returned
  path,       \* which function produced the result
  result      \* what was returned: fields, with the components, source row
              \* and field_hierarchy they were computed from

xvars == <<snapshot, xpc, path, result>>
fvars == <<node, handle, node0, id1, id2, ok1, ok2, fpc>>
hvars == <<ret, visit, clicked_before>>
evars == <<region, around, epc, cands, ei, clicked_elements, expanded_count,
           object_expanded_count, array_object_expanded_count, orig_expanded_count,
           step, current_scroll, processed_count, clicks, clicked_once, clicked_twice,
           ret, visit, clicked_before, last_try>>
wvars == <<wname, wdata, wout, wpc>>
avars == <<apc, session, outcomes, loads>>
dvars == <<dpc, dlog, quits>>
gvars == <<fs, fs0, detected, written, asked, gops, gpc>>
rvars == <<tables_data, max_retries, driver, ti, attempt, fields_data,
           extracted_data, files, visits, surfaced, rpc>>
vars == <<snapshot, xpc, path, result, node, handle, node0, id1, id2, ok1, ok2, fpc,
          region, around, epc, cands, ei, clicked_elements, expanded_count,
          object_expanded_count, array_object_expanded_count, orig_expanded_count,
          step, current_scroll, processed_count, clicks, clicked_once, clicked_twice,
          ret, visit, clicked_before, last_try, wname, wdata, wout, wpc,
          tables_data, max_retries, driver, ti, attempt, fields_data,
          extracted_data, files, visits, surfaced, rpc, apc, session, outcomes, loads,
          dpc, dlog, quits, fs, fs0, detected, written, asked, gops, gpc>>

NoResult == [fields |-> <<>>, paths |-> <<>>, from |-> <<>>,
             hierarchy |-> <<>>, made |-> <<>>, depths |-> <<>>, pushed |-> <<>>,
   has_content |-> FALSE]

NoData == [kind |-> "none"]
NoId == [hash |-> <<>>, text |-> <<>>]
IdleNode == [tag |-> <<>>, text |-> <<>>, classes |-> <<>>, x |-> 0, y |-> 0]

\* the engine has not returned; the value of a Python function that ends
\* without a return statement or with a bare one
NotReturned == [returned |-> FALSE, none |-> FALSE, count |-> 0, clicked |-> {}]
NoneValue == [returned |-> TRUE, none |-> TRUE, count |-> 0, clicked |-> {}]

\* no click was attempted; the attempts made on the node at index idx of
\* the region, and whether one of them was accepted
NoTry == [idx |-> 0, tried |-> <<>>, clicked |-> FALSE]
Try(idx, order, n) ==
  [idx |-> idx, tried |-> Attempts(order, n), clicked |-> Accepted(order, n)]

\* counters and logs of the engine before it runs
ECleared ==
  /\ cands = <<>> /\ ei = 1 /\ clicked_elements = {}
  /\ expanded_count = 0 /\ object_expanded_count = 0
  /\ array_object_expanded_count = 0 /\ orig_expanded_count = 0
  /\ step = 0 /\ current_scroll = 0 /\ processed_count = 0
  /\ clicks = 0 /\ clicked_once = {} /\ clicked_twice = {}
  /\ ret = NotReturned /\ visit = 1 /\ clicked_before = {}
  /\ last_try = NoTry

EIdle ==
  /\ region = <<>>
  /\ around = [schema_rows |-> 2, locate |-> "xpath", final_raise |-> FALSE,
               orig_raise |-> FALSE, height |-> 0]
  /\ epc = "idle"
  /\ ECleared

\* the normaliser and the orchestrator at rest
WIdle == wname = <<>> /\ wdata = NoData /\ wout = NoData /\ wpc = "idle"
RCleared ==
  /\ ti = 1 /\ attempt = 0 /\ fields_data = <<>> /\ extracted_data = <<>>
  /\ files = <<>> /\ visits = <<>> /\ surfaced = "none"

RIdle ==
  /\ tables_data = <<>> /\ max_retries = 0 /\ driver = "none" /\ rpc = "idle"
  /\ RCleared

\* the attempt loop at rest
AIdle == apc = "idle" /\ session = <<>> /\ outcomes = <<>> /\ loads = 0

\* the lifecycle calls at rest
DIdle == dpc = "idle" /\ dlog = <<>> /\ quits = 0

\* the wrangler's directory at rest
GIdle ==
  /\ fs = <<>> /\ fs0 = <<>> /\ detected = {} /\ written = {} /\ asked = {}
  /\ gops = 0 /\ gpc = "idle"

\* the extractor and the fingerprinter at rest
XIdle == snapshot = <<>> /\ xpc = "idle" /\ path = "none" /\ result = NoResult
FIdle ==
  /\ node = IdleNode /\ node0 = IdleNode /\ handle = "h1"
  /\ id1 = NoId /\ id2 = NoId /\ ok1 = TRUE /\ ok2 = TRUE /\ fpc = "idle"


\* ------------------------------------------------------------------------
\* _extract_fields_from_container
\* ------------------------------------------------------------------------
\* first property-name element of the snapshot whose text is "content" (0: none)
RECURSIVE ContentElement(_, _)
ContentElement(snap, k) ==
  IF k > Len(snap) THEN 0
  ELSE IF IsContentName(snap[k].name) THEN k
  ELSE ContentElement(snap, k + 1)

\* a content element was found (lines 776-781)
ContentSectionFound(snap) == ContentElement(snap, 1) > 0

\* variant of ExtractFieldsFromContainer: flat mode also when content mode
\* yields no record
ExtractFieldsFromContainer_FallbackOnEmpty(snap) ==
  IF ~ContentSectionFound(snap) \/ ExtractFieldsWithHierarchy(snap).fields = <<>>
  THEN [path |-> "flat", res |-> ExtractAllFieldsFallback(snap)]
  ELSE [path |-> "content", res |-> ExtractFieldsWithHierarchy(snap)]

\* _extract_fields_from_container when nothing is raised: which pass ran and
\* what it returned (lines 781-797)
ExtractFieldsFromContainer(snap) ==
  IF ~ContentSectionFound(snap)
  THEN [path |-> "flat", res |-> ExtractAllFieldsFallback(snap)]
  ELSE [path |-> "content", res |-> ExtractFieldsWithHierarchy(snap)]

XInit ==
  /\ snapshot \in Snapshots
  /\ xpc = "snapshot"
  /\ path = "none"
  /\ result = NoResult
  /\ FIdle
  /\ EIdle
  /\ WIdle
  /\ RIdle
  /\ AIdle
  /\ DIdle
  /\ GIdle

\* content found: _extract_fields_with_hierarchy decides the result
ExtractContentMode ==
  /\ xpc = "snapshot"
  /\ ExtractFieldsFromContainer(snapshot).path = "content"
  /\ result' = ExtractFieldsFromContainer(snapshot).res
  /\ path' = "content"
  /\ xpc' = "done"
  /\ UNCHANGED <<snapshot, fvars, evars, wvars, gvars, dvars, avars, rvars>>

\* no content element: _extract_all_fields_fallback decides the result
ExtractFlatMode ==
  /\ xpc = "snapshot"
  /\ ExtractFieldsFromContainer(snapshot).path = "flat"
  /\ result' = ExtractFieldsFromContainer(snapshot).res
  /\ path' = "flat"
  /\ xpc' = "done"
  /\ UNCHANGED <<snapshot, fvars, evars, wvars, gvars, dvars, avars, rvars>>

\* _extract_all_fields_fallback raised outside its row loops:
\* _extract_simple_fields_fallback decides the result (lines 1206-1209)
ExtractSimpleMode ==
  /\ xpc = "snapshot"
  /\ ExtractFieldsFromContainer(snapshot).path = "flat"
  /\ result' = ExtractSimpleFieldsFallback(snapshot)
  /\ path' = "simple"
  /\ xpc' = "done"
  /\ UNCHANGED <<snapshot, fvars, evars, wvars, gvars, dvars, avars, rvars>>

\* _extract_fields_with_hierarchy raised outside its row loops: its handler
\* returns what _extract_all_fields_fallback makes of the whole markup
\* (lines 990-992)
ExtractContentRaises ==
  /\ xpc = "snapshot"
  /\ ExtractFieldsFromContainer(snapshot).path = "content"
  /\ result' = ExtractAllFieldsFallback(snapshot)
  /\ path' = "rescue"
  /\ xpc' = "done"
  /\ UNCHANGED <<snapshot, fvars, evars, wvars, gvars, dvars, avars, rvars>>

\* reading the markup raised: the empty list is returned (lines 799-801)
ExtractError ==
  /\ xpc = "snapshot"
  /\ result' = NoResult
  /\ path' = "error"
  /\ xpc' = "done"
  /\ UNCHANGED <<snapshot, fvars, evars, wvars, gvars, dvars, avars, rvars>>

\* ------------------------------------------------------------------------
\* Two fingerprint calls on one node, with a re-render between them
\* ------------------------------------------------------------------------
FInit ==
  /\ node \in FpNodes
  /\ node0 = node
  /\ handle = "h1"
  /\ id1 = NoId /\ id2 = NoId /\ ok1 = TRUE /\ ok2 = TRUE
  /\ fpc = "fresh"
  /\ XIdle
  /\ EIdle
  /\ WIdle
  /\ RIdle
  /\ AIdle
  /\ DIdle
  /\ GIdle

\* what one call returns: the attribute reads succeed or one of them raises
Fingerprint(el, h, reads_ok) ==
  IF reads_ok THEN GetElementIdentifier(el) ELSE FallbackIdentifier(h)

FirstCall ==
  /\ fpc = "fresh"
  /\ \E reads_ok \in BOOLEAN :
        /\ ok1' = reads_ok
        /\ id1' = Fingerprint(node, handle, reads_ok)
  /\ node0' = node
  /\ fpc' = "called1"
  /\ UNCHANGED <<node, handle, id2, ok2, xvars, evars, wvars, gvars, dvars, avars, rvars>>

\* the page re-renders: at most one attribute of the node changes, or the
\* node is found again under another handle
Rerender ==
  /\ fpc = "called1"
  /\ \/ UNCHANGED <<node, handle>>
     \/ \E t \in Texts : node' = [node EXCEPT !.text = t] /\ UNCHANGED handle
     \/ \E c \in ClassAttrs : node' = [node EXCEPT !.classes = c] /\ UNCHANGED handle
     \/ \E px \in XPositions : node' = [node EXCEPT !.x = px] /\ UNCHANGED handle
     \/ \E py \in YPositions : node' = [node EXCEPT !.y = py] /\ UNCHANGED handle
     \/ \E h \in Handles : handle' = h /\ UNCHANGED node
  /\ fpc' = "rerendered"
  /\ UNCHANGED <<node0, id1, id2, ok1, ok2, xvars, evars, wvars, gvars, dvars, avars, rvars>>

SecondCall ==
  /\ fpc = "rerendered"
  /\ \E reads_ok \in BOOLEAN :
        /\ ok2' = reads_ok
        /\ id2' = Fingerprint(node, handle, reads_ok)
  /\ fpc' = "called2"
  /\ UNCHANGED <<node, handle, node0, id1, ok1, xvars, evars, wvars, gvars, dvars, avars, rvars>>

FNext == FirstCall \/ Rerender \/ SecondCall

SpecFingerprint == FInit /\ [][FNext]_vars

\* ------------------------------------------------------------------------
\* One invocation of _expand_collapsed_elements_in_container
\* ------------------------------------------------------------------------
EInit ==
  /\ region \in Regions
  /\ around \in Surroundings
  /\ epc = "start"
  /\ ECleared
  /\ XIdle
  /\ FIdle
  /\ WIdle
  /\ RIdle
  /\ AIdle
  /\ DIdle
  /\ GIdle

Candidates(idxs) == [j \in 1..Len(idxs) |-> [idx |-> idxs[j], element_id |-> NoId]]

\* a click on the element fingerprinted as id is performed
LogClick(id) ==
  /\ clicks' = clicks + 1
  /\ clicked_once' = clicked_once \cup {id}
  /\ clicked_twice' = IF id \in clicked_once THEN clicked_twice \cup {id} ELSE clicked_twice

NoLog == UNCHANGED <<clicks, clicked_once, clicked_twice>>
NoClick == NoLog /\ last_try' = NoTry

\* the loop conditions at the top of each click loop
ScopedBudgetLeft == expanded_count < max_expansions

\* variant of ObjectBudgetLeft: the object pass has no ceiling
ObjectBudgetLeft_Off == TRUE

ObjectBudgetLeft == object_expanded_count < max_object_expansions

ArrayBudgetLeft == array_object_expanded_count < max_array_object_expansions
OriginalBudgetLeft ==
  processed_count < MaxClicksPerStep /\ orig_expanded_count < original_max_expansions

\* variant of FreshClickedSet: the set of the invocation before is kept
FreshClickedSet_Shared(previous) == previous

\* clicked_elements = set() at the head of both engine functions (lines 222, 373)
FreshClickedSet(previous) == {}

\* variant of ReturnValue: the count and the clicked set are handed back
ReturnValue_CountAndSet(count, clicked) ==
  [returned |-> TRUE, none |-> FALSE, count |-> count, clicked |-> clicked]

\* what the caller receives: both functions end without a return statement
\* (lines 358-360, 426, 428-429), and line 364 hands on what the positional
\* fallback returned; the counts are printed only
ReturnValue(count, clicked) == NoneValue

\* variant of CandidateHandler: the failure of a candidate leaves the loop
CandidateHandler_Reraise(pc) == "raised"

\* the handlers around the body of each candidate loop: except ... continue
\* (lines 339-341, 560-563, 707-718, 413-417); the loop goes on
CandidateHandler(pc) == pc

\* variant of Marked: the fingerprint is kept only when the click added fields
Marked_OnlyOnGrowth(clicked, element_id, grew) ==
  IF grew THEN clicked \cup {element_id} ELSE clicked

\* clicked_elements.add(element_id) right after a successful click, before
\* the fields are counted again (lines 327-328, 547-548, 696-697)
Marked(clicked, element_id, grew) == clicked \cup {element_id}

\* entry of _expand_collapsed_elements_original (lines 371-378)
EnterOriginal ==
  /\ orig_expanded_count' = 0
  /\ clicked_elements' = FreshClickedSet(clicked_elements)
  /\ current_scroll' = 0
  /\ step' = 0
  /\ processed_count' = 0
  /\ cands' = <<>>
  /\ ei' = 1
  /\ epc' = "orig_step"

\* variant of ReturnsOriginal: the positional fallback is taken in any region
ReturnsOriginal_Always(e) == TRUE

\* the early returns into the positional fallback: fewer than two schema
\* rows (228-230), no content container (261-265), or a driver call raised
\* before the loops (handler of 362-364)
ReturnsOriginal(e) == e.schema_rows < 2 \/ e.locate \in {"none", "raise"}

\* two schema rows and a content container: the scoped pass starts
\* (lines 220-286)
StartScoped ==
  /\ epc = "start"
  /\ around.schema_rows >= 2
  /\ around.locate \in {"xpath", "second"}
  /\ expanded_count' = 0
  /\ clicked_elements' = FreshClickedSet(clicked_elements)
  /\ cands' = Candidates(ClickableElements(region))
  /\ ei' = 1
  /\ epc' = "scoped"
  /\ NoClick
  /\ UNCHANGED <<region, around, object_expanded_count, array_object_expanded_count,
                 orig_expanded_count, step, current_scroll, processed_count, hvars, xvars, fvars, wvars, gvars, dvars, avars, rvars>>

\* fewer than two schema rows, no content container, or a driver call
\* raised: the positional fallback runs instead (lines 228-230, 261-265, 362-364)
StartOriginal ==
  /\ epc = "start"
  /\ ReturnsOriginal(around)
  /\ EnterOriginal
  /\ NoClick
  /\ UNCHANGED <<region, around, expanded_count, object_expanded_count,
                 array_object_expanded_count, hvars, xvars, fvars, wvars, gvars, dvars, avars, rvars>>

\* one iteration of the scoped loop (lines 288-341)
ScopedStep ==
  /\ epc = "scoped"
  /\ ei <= Len(cands)
  /\ ScopedBudgetLeft
  /\ LET n == region[cands[ei].idx]
         element_id == GetElementIdentifier(n.el)
         reached == n.displayed /\ element_id \notin clicked_elements
         clicking == reached /\ n.parent /\ ScopedClickSucceeds(n)
     IN /\ IF clicking
           THEN /\ clicked_elements' = Marked(clicked_elements, element_id, n.grows)
                /\ expanded_count' = IF n.grows THEN expanded_count + 1 ELSE expanded_count
                /\ LogClick(element_id)
           ELSE /\ UNCHANGED <<clicked_elements, expanded_count>>
                /\ NoLog
        /\ last_try' = IF reached /\ n.parent THEN Try(cands[ei].idx, ScopedOrder, n) ELSE NoTry
        /\ epc' = IF reached /\ ~clicking THEN CandidateHandler(epc) ELSE epc
  /\ ei' = ei + 1
  /\ UNCHANGED <<region, around, cands, object_expanded_count,
                 array_object_expanded_count, orig_expanded_count, step,
                 current_scroll, processed_count, hvars, xvars, fvars, wvars, gvars, dvars, avars, rvars>>

\* valid_buttons of _expand_object_fields: the displayed chevrons whose
\* fingerprint is not in the clicked set when the list is built (lines 453-495)
ValidButtons(nodes, clicked) ==
  LET all == AllExpandableButtons(nodes)
      valid == InOrder({j \in 1..Len(all) :
                          /\ nodes[all[j]].displayed
                          /\ GetElementIdentifier(nodes[all[j]].el) \notin clicked})
  IN [j \in 1..Len(valid) |->
        [idx |-> all[valid[j]],
         element_id |-> GetElementIdentifier(nodes[all[valid[j]]].el)]]

\* the scoped loop is over: _expand_object_fields is called and builds its
\* list (lines 343-350, 439-497)
BeginObjectPass ==
  /\ epc = "scoped"
  /\ ei > Len(cands) \/ ~ScopedBudgetLeft
  /\ object_expanded_count' = 0
  /\ cands' = ValidButtons(region, clicked_elements)
  /\ ei' = 1
  /\ epc' = "object"
  /\ NoClick
  /\ UNCHANGED <<region, around, clicked_elements, expanded_count,
                 array_object_expanded_count, orig_expanded_count, step,
                 current_scroll, processed_count, hvars, xvars, fvars, wvars, gvars, dvars, avars, rvars>>

\* one iteration of the click loop of _expand_object_fields (lines 500-563)
ObjectStep ==
  /\ epc = "object"
  /\ ei <= Len(cands)
  /\ ObjectBudgetLeft
  /\ LET n == region[cands[ei].idx]
         element_id == cands[ei].element_id
     IN /\ IF TypedClickSucceeds(n)
           THEN /\ clicked_elements' = Marked(clicked_elements, element_id, n.grows)
                /\ object_expanded_count' =
                     IF n.grows THEN object_expanded_count + 1 ELSE object_expanded_count
                /\ LogClick(element_id)
           ELSE /\ UNCHANGED <<clicked_elements, object_expanded_count>>
                /\ NoLog
        /\ last_try' = Try(cands[ei].idx, TypedOrder, n)
        /\ epc' = IF ~TypedClickSucceeds(n) THEN CandidateHandler(epc) ELSE epc
  /\ ei' = ei + 1
  /\ UNCHANGED <<region, around, cands, expanded_count,
                 array_object_expanded_count, orig_expanded_count, step,
                 current_scroll, processed_count, hvars, xvars, fvars, wvars, gvars, dvars, avars, rvars>>

\* _expand_object_fields returned: _expand_array_object_fields is called and
\* collects the type elements reading array[object] (lines 579-618)
BeginArrayPass ==
  /\ epc = "object"
  /\ ei > Len(cands) \/ ~ObjectBudgetLeft
  /\ array_object_expanded_count' = 0
  /\ cands' = Candidates(ArrayObjectElements(region))
  /\ ei' = 1
  /\ epc' = "array"
  /\ NoClick
  /\ UNCHANGED <<region, around, clicked_elements, expanded_count,
                 object_expanded_count, orig_expanded_count, step,
                 current_scroll, processed_count, hvars, xvars, fvars, wvars, gvars, dvars, avars, rvars>>

\* one iteration of the loop of _expand_array_object_fields (lines 621-718)
ArrayStep ==
  /\ epc = "array"
  /\ ei <= Len(cands)
  /\ ArrayBudgetLeft
  /\ LET n == region[cands[ei].idx]
         element_id == GetElementIdentifier(n.el)
         reached == n.chevron /\ n.displayed /\ element_id \notin clicked_elements
         clicking == reached /\ TypedClickSucceeds(n)
     IN /\ IF clicking
           THEN /\ clicked_elements' = Marked(clicked_elements, element_id, n.grows)
                /\ array_object_expanded_count' =
                     IF n.grows THEN array_object_expanded_count + 1
                     ELSE array_object_expanded_count
                /\ LogClick(element_id)
           ELSE /\ UNCHANGED <<clicked_elements, array_object_expanded_count>>
                /\ NoLog
        /\ last_try' = IF reached THEN Try(cands[ei].idx, TypedOrder, n) ELSE NoTry
        /\ epc' = IF ~n.chevron \/ (reached /\ ~clicking)
                  THEN CandidateHandler(epc) ELSE epc
  /\ ei' = ei + 1
  /\ UNCHANGED <<region, around, cands, expanded_count, object_expanded_count,
                 orig_expanded_count, step, current_scroll, processed_count,
                 hvars, xvars, fvars, wvars, gvars, dvars, avars, rvars>>

\* the counts are summed, the region is scrolled to its top and the engine
\* returns (lines 356-360)
FinishScoped ==
  /\ epc = "array"
  /\ ei > Len(cands) \/ ~ArrayBudgetLeft
  /\ ~around.final_raise
  /\ expanded_count' = expanded_count + object_expanded_count + array_object_expanded_count
  /\ epc' = "returned"
  /\ ret' = ReturnValue(expanded_count', clicked_elements)
  /\ NoClick
  /\ UNCHANGED <<region, around, cands, ei, clicked_elements, object_expanded_count,
                 array_object_expanded_count, orig_expanded_count, step,
                 current_scroll, processed_count, visit, clicked_before,
                 xvars, fvars, wvars, gvars, dvars, avars, rvars>>

\* the closing scroll raises: the handler of line 362 runs the positional
\* fallback on the region already clicked through
FinishRaises ==
  /\ epc = "array"
  /\ ei > Len(cands) \/ ~ArrayBudgetLeft
  /\ around.final_raise
  /\ expanded_count' = expanded_count + object_expanded_count + array_object_expanded_count
  /\ EnterOriginal
  /\ NoClick
  /\ UNCHANGED <<region, around, object_expanded_count, array_object_expanded_count,
                 hvars, xvars, fvars, wvars, gvars, dvars, avars, rvars>>

\* a scroll step of the positional fallback: scroll, collect the muted
\* truncated elements (lines 380-392)
OrigScroll ==
  /\ epc = "orig_step"
  /\ ~around.orig_raise
  /\ step < MaxSteps(around.height)
  /\ cands' = Candidates(CollapsedElements(region))
  /\ ei' = 1
  /\ processed_count' = 0
  /\ epc' = "orig_click"
  /\ NoClick
  /\ UNCHANGED <<region, around, clicked_elements, expanded_count,
                 object_expanded_count, array_object_expanded_count,
                 orig_expanded_count, step, current_scroll, hvars, xvars, fvars, wvars, gvars, dvars, avars, rvars>>

\* one iteration of the inner loop of the positional fallback (lines 392-417)
OrigClick ==
  /\ epc = "orig_click"
  /\ ei <= Len(cands)
  /\ OriginalBudgetLeft
  /\ LET n == region[cands[ei].idx]
         element_id == GetElementIdentifier(n.el)
         reached == n.displayed /\ element_id \notin clicked_elements
         clicking == reached /\ OriginalClickSucceeds(n)
     IN /\ IF clicking
           THEN /\ clicked_elements' = clicked_elements \cup {element_id}
                /\ orig_expanded_count' = orig_expanded_count + 1
                /\ processed_count' = processed_count + 1
                /\ LogClick(element_id)
           ELSE /\ UNCHANGED <<clicked_elements, orig_expanded_count, processed_count>>
                /\ NoLog
        /\ last_try' = IF reached THEN Try(cands[ei].idx, OriginalOrder, n) ELSE NoTry
        /\ epc' = IF reached /\ ~clicking THEN CandidateHandler(epc) ELSE epc
  /\ ei' = ei + 1
  /\ UNCHANGED <<region, around, cands, expanded_count, object_expanded_count,
                 array_object_expanded_count, step, current_scroll, hvars, xvars, fvars, wvars, gvars, dvars, avars, rvars>>

\* end of a scroll step: advance by scroll_step, leave the loop at the
\* bottom of the region (lines 421-423)
OrigStepEnd ==
  /\ epc = "orig_click"
  /\ ei > Len(cands) \/ ~OriginalBudgetLeft
  /\ current_scroll' = current_scroll + scroll_step
  /\ IF current_scroll + scroll_step >= around.height
     THEN /\ epc' = "returned" /\ step' = step
          /\ ret' = ReturnValue(orig_expanded_count, clicked_elements)
     ELSE /\ epc' = "orig_step" /\ step' = step + 1
          /\ ret' = ret
  /\ NoClick
  /\ UNCHANGED <<region, around, cands, ei, clicked_elements, expanded_count,
                 object_expanded_count, array_object_expanded_count,
                 orig_expanded_count, processed_count, visit, clicked_before,
                 xvars, fvars, wvars, gvars, dvars, avars, rvars>>

\* range(max_steps) is exhausted: the positional fallback returns
OrigReturn ==
  /\ epc = "orig_step"
  /\ ~around.orig_raise
  /\ step >= MaxSteps(around.height)
  /\ epc' = "returned"
  /\ ret' = ReturnValue(orig_expanded_count, clicked_elements)
  /\ NoClick
  /\ UNCHANGED <<region, around, cands, ei, clicked_elements, expanded_count,
                 object_expanded_count, array_object_expanded_count,
                 orig_expanded_count, step, current_scroll, processed_count,
                 visit, clicked_before, xvars, fvars, wvars, gvars, dvars, avars, rvars>>

\* a driver call of the positional fallback raises outside the per-element
\* handler: the handler of lines 428-429 prints the error and the function ends
OrigRaises ==
  /\ epc = "orig_step"
  /\ around.orig_raise
  /\ epc' = "returned"
  /\ ret' = ReturnValue(orig_expanded_count, clicked_elements)
  /\ NoClick
  /\ UNCHANGED <<region, around, cands, ei, clicked_elements, expanded_count,
                 object_expanded_count, array_object_expanded_count,
                 orig_expanded_count, step, current_scroll, processed_count,
                 visit, clicked_before, xvars, fvars, wvars, gvars, dvars, avars, rvars>>

\* the engine is called again for the next page visit (line 173 in the next
\* attempt or for the next table): the page is loaded anew and shows the
\* same nodes; nothing of the engine is touched between the two calls
NextVisit ==
  /\ epc = "returned"
  /\ visit < MaxVisits
  /\ visit' = visit + 1
  /\ clicked_before' = clicked_before \cup clicked_once
  /\ clicks' = 0
  /\ clicked_once' = {}
  /\ clicked_twice' = {}
  /\ ret' = NotReturned
  /\ last_try' = NoTry
  /\ epc' = "start"
  /\ UNCHANGED <<region, around, cands, ei, clicked_elements, expanded_count,
                 object_expanded_count, array_object_expanded_count,
                 orig_expanded_count, step, current_scroll, processed_count,
                 xvars, fvars, wvars, gvars, dvars, avars, rvars>>

ENext ==
  \/ StartScoped
  \/ StartOriginal
  \/ ScopedStep
  \/ BeginObjectPass
  \/ ObjectStep
  \/ BeginArrayPass
  \/ ArrayStep
  \/ FinishScoped
  \/ FinishRaises
  \/ OrigScroll
  \/ OrigClick
  \/ OrigStepEnd
  \/ OrigReturn
  \/ OrigRaises
  \/ NextVisit

SpecExpand == EInit /\ [][ENext]_vars

\* ------------------------------------------------------------------------
\* DataWrangler: camel_to_snake_case.  A name is a sequence of characters.
\* ------------------------------------------------------------------------
UpperLetters == <<"A", "B", "C", "D", "E", "F", "G", "H", "I", "J", "K", "L", "M", "N", "O", "P", "Q", "R", "S", "T", "U", "V", "W", "X", "Y", "Z">>
LowerLetters == <<"a", "b", "c", "d", "e", "f", "g", "h", "i", "j", "k", "l", "m", "n", "o", "p", "q", "r", "s", "t", "u", "v", "w", "x", "y", "z">>
DigitChars == {"0", "1", "2", "3", "4", "5", "6", "7", "8", "9"}

\* [A-Z], [a-z], [a-z0-9]
IsUpper(c) == \E k \in 1..Len(UpperLetters) : UpperLetters[k] = c
IsLower(c) == \E k \in 1..Len(LowerLetters) : LowerLetters[k] = c
IsLowerOrDigit(c) == IsLower(c) \/ c \in DigitChars

\* str.lower() on one character
LowerChar(c) ==
  IF IsUpper(c) THEN LowerLetters[CHOOSE k \in 1..Len(UpperLetters) : UpperLetters[k] = c]
  ELSE c

\* end of the run [a-z]+ that starts at position j
RECURSIVE LowerRunEnd(_, _)
LowerRunEnd(name, j) ==
  IF j + 1 <= Len(name) /\ IsLower(name[j + 1]) THEN LowerRunEnd(name, j + 1) ELSE j

\* re.sub('(.)([A-Z][a-z]+)', r'\1_\2', name), from position i on: the
\* leftmost match is replaced and the scan resumes after it
RECURSIVE SubWordStart(_, _)
SubWordStart(name, i) ==
  IF i > Len(name) THEN <<>>
  ELSE IF /\ i + 2 <= Len(name)
          /\ name[i] # "\n"
          /\ IsUpper(name[i + 1])
          /\ IsLower(name[i + 2])
       THEN LET q == LowerRunEnd(name, i + 2)
            IN <<name[i], "_">> \o SubSeq(name, i + 1, q) \o SubWordStart(name, q + 1)
       ELSE <<name[i]>> \o SubWordStart(name, i + 1)

\* re.sub('([a-z0-9])([A-Z])', r'\1_\2', s1), from position i on
RECURSIVE SubLowerUpper(_, _)
SubLowerUpper(s1, i) ==
  IF i > Len(s1) THEN <<>>
  ELSE IF i + 1 <= Len(s1) /\ IsLowerOrDigit(s1[i]) /\ IsUpper(s1[i + 1])
       THEN <<s1[i], "_", s1[i + 1]>> \o SubLowerUpper(s1, i + 2)
       ELSE <<s1[i]>> \o SubLowerUpper(s1, i + 1)

\* s2.lower()
ToLower(s2) == [k \in 1..Len(s2) |-> LowerChar(s2[k])]

\* variant of CollapseUnderscores: runs of underscores are kept
CollapseUnderscores_Off(str, i) == SubSeq(str, i, Len(str))

\* re.sub('_{2,}', '_', result)
RECURSIVE CollapseUnderscores(_, _)
CollapseUnderscores(str, i) ==
  IF i > Len(str) THEN <<>>
  ELSE IF str[i] = "_" /\ i > 1 /\ str[i - 1] = "_"
       THEN CollapseUnderscores(str, i + 1)
       ELSE <<str[i]>> \o CollapseUnderscores(str, i + 1)

\* result.strip('_')
RECURSIVE StripUnderscores(_)
StripUnderscores(str) ==
  IF str = <<>> THEN <<>>
  ELSE IF str[1] = "_" THEN StripUnderscores(Tail(str))
  ELSE IF str[Len(str)] = "_" THEN StripUnderscores(SubSeq(str, 1, Len(str) - 1))
  ELSE str

\* variant of camel_to_snake_case: the result is not lowered
camel_to_snake_case_NoLower(name) ==
  StripUnderscores(CollapseUnderscores(SubLowerUpper(SubWordStart(name, 1), 1), 1))

camel_to_snake_case(name) ==
  LET s1 == SubWordStart(name, 1)
      s2 == SubLowerUpper(s1, 1)
      lowered == ToLower(s2)
      collapsed == CollapseUnderscores(lowered, 1)
  IN StripUnderscores(collapsed)

\* the default names of test_normalization (lines 374-387)
TestNames ==
  { <<"s", "t", "o", "c", "k", "L", "o", "c", "a", "l", "_", "p", "r", "i", "o", "r", "i", "t", "y", "P", "o", "i", "n", "t", "s">>,
    <<"s", "t", "o", "c", "k", "L", "o", "c", "a", "l", "_", "d", "e", "f", "a", "u", "l", "t", "L", "o", "c", "a", "l">>,
    <<"s", "t", "o", "c", "k", "K", "e", "e", "p", "i", "n", "g", "U", "n", "i", "t", "_", "p", "a", "r", "t", "n", "e", "r", "I", "d">>,
    <<"c", "a", "t", "e", "g", "o", "r", "y", "I", "d">>,
    <<"f", "i", "r", "s", "t", "N", "a", "m", "e">>,
    <<"l", "a", "s", "t", "N", "a", "m", "e">>,
    <<"c", "a", "m", "e", "l", "C", "a", "s", "e", "E", "x", "a", "m", "p", "l", "e">>,
    <<"P", "a", "s", "c", "a", "l", "C", "a", "s", "e", "E", "x", "a", "m", "p", "l", "e">>,
    <<"a", "l", "r", "e", "a", "d", "y", "_", "s", "n", "a", "k", "e", "_", "c", "a", "s", "e">>,
    <<"M", "i", "x", "e", "d", "C", "A", "S", "E", "_", "e", "x", "a", "m", "p", "l", "e">>,
    <<"H", "T", "M", "L", "P", "a", "r", "s", "e", "r">>,
    <<"X", "M", "L", "H", "t", "t", "p", "R", "e", "q", "u", "e", "s", "t">> }

NameAlphabet == {"a", "b", "A", "B", "_", "1"}
FieldNames == UNION {[1..n -> NameAlphabet] : n \in 0..MaxNameLen} \cup TestNames

\* ------------------------------------------------------------------------
\* DataWrangler: normalize_field_names.  A dict is a function on its keys; a
\* JSON value is a string (str, chars) or something else (str = FALSE); an
\* item of the field list is a dict or something else (isdict = FALSE).
\* ------------------------------------------------------------------------
\* readings of time.strftime
Dates == {"d1", "d2"}

Val(chars) == [str |-> TRUE, chars |-> chars]
NonString == [str |-> FALSE, chars |-> <<>>]
Dict(d) == [isdict |-> TRUE, d |-> d]
NonDict == [isdict |-> FALSE, d |-> [value |-> NonString]]

DataNames == {<<"a", "B">>, <<"a", "_", "b">>, <<"A">>, <<"_", "a">>}

FieldItems ==
  {Dict([name |-> Val(n), field_type |-> Val(<<"s">>)]) : n \in DataNames}
  \cup { Dict([name |-> NonString, field_type |-> Val(<<"s">>)]),
         Dict([field_type |-> Val(<<"s">>)]),
         Dict([name |-> Val(<<"a", "B">>), original_field_name |-> Val(<<"o">>)]),
         NonDict }

ListValue(items) == [list |-> TRUE, items |-> items]
NotAList == [list |-> FALSE, items |-> <<>>]

\* the file contents normalize_field_names is given
FileData ==
  {[table_name |-> "t", fields |-> ListValue(items)] :
     items \in UNION {[1..n -> FieldItems] : n \in 0..MaxFields}}
  \cup {[table_name |-> "t", fields |-> NotAList], [table_name |-> "t"]}

\* if not isinstance(field, dict) or "name" not in field: continue (line 198)
Eligible(field) == field.isdict /\ "name" \in DOMAIN field.d

\* "fields" not in data or not isinstance(data["fields"], list) (line 189)
HasFieldList(data) == "fields" \in DOMAIN data /\ data["fields"].list

\* re.sub raises TypeError on a name that is not a string (lines 153, 207)
NormalizeRaisesOn(data) ==
  \E k \in 1..Len(data["fields"].items) :
    Eligible(data["fields"].items[k]) /\ ~data["fields"].items[k].d["name"].str

\* variant of NormalizedField: the name before the rewrite is not kept
NormalizedField_NoOriginal(field) ==
  Dict(("name" :> Val(camel_to_snake_case(field.d["name"].chars))) @@ field.d)

\* the copy of a field with its two keys set (lines 203-211)
NormalizedField(field) ==
  Dict(("name" :> Val(camel_to_snake_case(field.d["name"].chars)))
       @@ ("original_field_name" :> field.d["name"])
       @@ field.d)

\* the loop of lines 197-220: normalized_fields and name_changes
RECURSIVE NormalizeLoop(_, _)
NormalizeLoop(original_fields, k) ==
  IF k > Len(original_fields) THEN [fields |-> <<>>, changes |-> <<>>]
  ELSE LET rest == NormalizeLoop(original_fields, k + 1)
           field == original_fields[k]
       IN IF ~Eligible(field) THEN rest
          ELSE LET original_name == field.d["name"].chars
                   normalized_name == camel_to_snake_case(original_name)
               IN [fields |-> <<NormalizedField(field)>> \o rest.fields,
                   changes |-> IF original_name # normalized_name
                               THEN <<[original |-> original_name,
                                       normalized |-> normalized_name]>> \o rest.changes
                               ELSE rest.changes]

\* normalized_data on the paths of the function
Stamped(data, date) ==
  ("processing_date" :> date) @@ ("normalization_applied" :> TRUE) @@ data

NormalizedData(data, date) ==
  LET done == NormalizeLoop(data["fields"].items, 1)
  IN ("fields" :> ListValue(done.fields))
     @@ ("normalization_summary" :>
           [total_fields |-> Len(done.fields),
            fields_renamed |-> Len(done.changes),
            name_changes |-> done.changes])
     @@ Stamped(data, date)

\* ------------------------------------------------------------------------
\* normalize_field_names on objects.  The dict given as data, the dicts of
\* its field list and the copies the function makes are objects with a
\* reference; a list holds references; an assignment d[key] = value changes
\* the object d names, whatever other name it is reached by.
\* ------------------------------------------------------------------------
\* the object given as data, and the k-th item of its field list
DataRef == [of |-> "data", k |-> 0, copy |-> FALSE]
FieldRef(k) == [of |-> "field", k |-> k, copy |-> FALSE]

\* variant of DictCopy: the dict itself under another name
DictCopy_Alias(ref) == ref

\* d.copy() (lines 182, 203): the reference of a new dict
DictCopy(ref) == [ref EXCEPT !.copy = TRUE]

\* heap[ref] = value, and d[key] = value
Store(heap, ref, value) == (ref :> value) @@ heap
SetKey(d, key, value) == (key :> value) @@ d

\* the objects when the function is called: the list of data["fields"]
\* holds the references of its items
TopsAtCall(data) ==
  DataRef :> (IF HasFieldList(data)
              THEN [data EXCEPT !["fields"] =
                      ListValue([k \in 1..Len(data["fields"].items) |-> FieldRef(k)])]
              ELSE data)
ItemsAtCall(data) ==
  IF HasFieldList(data)
  THEN [r \in {FieldRef(k) : k \in 1..Len(data["fields"].items)} |-> data["fields"].items[r.k]]
  ELSE <<>>

\* the value a top-level dict stands for: its field list with the items
\* the references lead to
Deref(tops, items, ref) ==
  LET top == tops[ref] IN
  IF "fields" \in DOMAIN top /\ top["fields"].list
  THEN [top EXCEPT !["fields"] =
          ListValue([k \in 1..Len(top["fields"].items) |-> items[top["fields"].items[k]]])]
  ELSE top

\* the loop of lines 197-220 on the objects: items is the heap of field
\* dicts, normalized_fields the references appended so far
RECURSIVE FieldLoopOnObjects(_, _, _, _, _)
FieldLoopOnObjects(items, original_fields, k, normalized_fields, name_changes) ==
  IF k > Len(original_fields)
  THEN [items |-> items, normalized_fields |-> normalized_fields,
        name_changes |-> name_changes, raised |-> FALSE]
  ELSE LET field == items[original_fields[k]] IN
    IF ~Eligible(field)
    THEN FieldLoopOnObjects(items, original_fields, k + 1, normalized_fields, name_changes)
    ELSE LET normalized_field == DictCopy(original_fields[k])
             copied == Store(items, normalized_field, field)
             original_name == field.d["name"]
         IN IF ~original_name.str
            THEN [items |-> copied, normalized_fields |-> normalized_fields,
                  name_changes |-> name_changes, raised |-> TRUE]
            ELSE LET normalized_name == camel_to_snake_case(original_name.chars)
                     named == Store(copied, normalized_field,
                                Dict(SetKey(copied[normalized_field].d, "name",
                                            Val(normalized_name))))
                     keyed == Store(named, normalized_field,
                                Dict(SetKey(named[normalized_field].d,
                                            "original_field_name", original_name)))
                 IN FieldLoopOnObjects(keyed, original_fields, k + 1,
                      Append(normalized_fields, normalized_field),
                      IF original_name.chars # normalized_name
                      THEN Append(name_changes, [original |-> original_name.chars,
                                                 normalized |-> normalized_name])
                      ELSE name_changes)

\* normalize_field_names(data) on the objects (lines 180-240): the heaps
\* when it returns and the reference it returns
NormalizeOnObjects(data, date) ==
  LET normalized_data == DictCopy(DataRef)
      copied == Store(TopsAtCall(data), normalized_data, TopsAtCall(data)[DataRef])
      dated == Store(copied, normalized_data,
                 SetKey(copied[normalized_data], "processing_date", date))
      applied == Store(dated, normalized_data,
                   SetKey(dated[normalized_data], "normalization_applied", TRUE))
  IN IF ~("fields" \in DOMAIN applied[DataRef] /\ applied[DataRef]["fields"].list)
     THEN [tops |-> applied, items |-> ItemsAtCall(data), ret |-> normalized_data]
     ELSE LET loop == FieldLoopOnObjects(ItemsAtCall(data), applied[DataRef]["fields"].items,
                                         1, <<>>, <<>>)
          IN IF loop.raised
             THEN [tops |-> applied, items |-> loop.items, ret |-> DataRef]
             ELSE LET listed == Store(applied, normalized_data,
                                  SetKey(applied[normalized_data], "fields",
                                         ListValue(loop.normalized_fields)))
                      summed == Store(listed, normalized_data,
                                  SetKey(listed[normalized_data], "normalization_summary",
                                    [total_fields |-> Len(loop.normalized_fields),
                                     fields_renamed |-> Len(loop.name_changes),
                                     name_changes |-> loop.name_changes]))
                  IN [tops |-> summed, items |-> loop.items, ret |-> normalized_data]

\* what the dict given as data holds when the function has returned, and
\* what the returned dict holds
InputAfter(data, date) ==
  LET run == NormalizeOnObjects(data, date) IN Deref(run.tops, run.items, DataRef)
ReturnedValue(data, date) ==
  LET run == NormalizeOnObjects(data, date) IN Deref(run.tops, run.items, run.ret)

Wrapped(kind, value) == [kind |-> kind, value |-> value]

WInit ==
  /\ \/ wpc = "name" /\ wname \in FieldNames /\ wdata = NoData
     \/ wpc = "data" /\ wname = <<>> /\ wdata \in {Wrapped("data", d) : d \in FileData}
  /\ wout = NoData
  /\ XIdle
  /\ FIdle
  /\ EIdle
  /\ RIdle
  /\ AIdle
  /\ DIdle
  /\ GIdle

\* test_normalization applies camel_to_snake_case to a name (line 395)
TestNormalization ==
  /\ wpc = "name"
  /\ wout' = Wrapped("name", camel_to_snake_case(wname))
  /\ wpc' = "done"
  /\ UNCHANGED <<wname, wdata, xvars, fvars, evars, rvars, gvars, dvars, avars>>

\* normalize_field_names on a file with a field list, no name raising
NormalizeFieldNames ==
  /\ wpc = "data"
  /\ HasFieldList(wdata.value)
  /\ ~NormalizeRaisesOn(wdata.value)
  /\ \E date \in Dates :
       /\ wout' = Wrapped("normalized", NormalizedData(wdata.value, date))
       /\ wdata' = Wrapped("data", InputAfter(wdata.value, date))
  /\ wpc' = "done"
  /\ UNCHANGED <<wname, xvars, fvars, evars, rvars, gvars, dvars, avars>>

\* no field list: the stamped copy is returned (lines 189-191)
NormalizeWithoutFields ==
  /\ wpc = "data"
  /\ ~HasFieldList(wdata.value)
  /\ \E date \in Dates :
       /\ wout' = Wrapped("stamped", Stamped(wdata.value, date))
       /\ wdata' = Wrapped("data", InputAfter(wdata.value, date))
  /\ wpc' = "done"
  /\ UNCHANGED <<wname, xvars, fvars, evars, rvars, gvars, dvars, avars>>

\* a name raises in camel_to_snake_case: the handler returns the object it
\* was given as data (lines 236-240)
NormalizeRaises ==
  /\ wpc = "data"
  /\ HasFieldList(wdata.value)
  /\ NormalizeRaisesOn(wdata.value)
  /\ \E date \in Dates :
       /\ wout' = Wrapped("unchanged", ReturnedValue(wdata.value, date))
       /\ wdata' = Wrapped("data", InputAfter(wdata.value, date))
  /\ wpc' = "done"
  /\ UNCHANGED <<wname, xvars, fvars, evars, rvars, gvars, dvars, avars>>

WNext ==
  \/ TestNormalization
  \/ NormalizeFieldNames
  \/ NormalizeWithoutFields
  \/ NormalizeRaises

SpecNormalize == WInit /\ [][WNext]_vars

\* ------------------------------------------------------------------------
\* extract_api_documentation: the run over the table entries
\* ------------------------------------------------------------------------
\* a table entry is a dict; "" stands for a missing or empty value
TableNames == {"t1", "t2"}
TableEntries ==
  [table : TableNames, url : {"u"}]
    \cup {[table |-> "", url |-> "u"], [table |-> "t1", url |-> ""]}

\* non-empty field lists an attempt can return
FieldLists == {<<"f1">>, <<"f1", "f2">>}

RInit ==
  /\ tables_data \in UNION {[1..n -> TableEntries] : n \in 0..MaxTables}
  /\ max_retries \in 0..MaxRetries
  /\ driver \in {"none", "dead", "active"}
  /\ rpc = "start"
  /\ RCleared
  /\ XIdle
  /\ FIdle
  /\ EIdle
  /\ WIdle
  /\ AIdle
  /\ DIdle
  /\ GIdle

\* variant of ValidEntry: the url is not looked at
ValidEntry_TableOnly(table_info) == table_info.table # ""

\* if not table_name or not url (line 130)
ValidEntry(table_info) == table_info.table # "" /\ table_info.url # ""

\* extracted_data[table_name] = value
Assign(mapping, key, value) ==
  [k \in (DOMAIN mapping) \cup {key} |-> IF k = key THEN value ELSE mapping[k]]

\* variant of AttemptHandler: an error of an attempt leaves the function
AttemptHandler_Reraise(pc) == "failed"

\* except TimeoutException / except Exception of _extract_fields_from_url
\* (lines 181-184): the loop over the attempts goes on
AttemptHandler(pc) == pc

\* variant of SaveHandler: a failed write leaves the function
SaveHandler_Reraise(pc) == "failed"

\* except Exception of _save_to_json (lines 1303-1304): the error is printed
SaveHandler(pc) == pc

\* variant of SavesFile: every result is written
SavesFile_Always(fields) == TRUE

\* if fields_data (line 139): only a non-empty result is saved
SavesFile(fields) == fields # <<>>

\* variant of OutputData: the count is one too high
OutputData_CountOff(table_name, date, fields) ==
  [table_name |-> table_name, extraction_date |-> date,
   total_fields |-> Len(fields) + 1, fields |-> fields, complete |-> TRUE]

\* output_data of _save_to_json (lines 1291-1296), as the complete file
OutputData(table_name, date, fields) ==
  [table_name |-> table_name, extraction_date |-> date,
   total_fields |-> Len(fields), fields |-> fields, complete |-> TRUE]

\* a file that open() created or emptied and json.dump did not finish
Truncated(table_name) ==
  [table_name |-> table_name, extraction_date |-> "", total_fields |-> 0,
   fields |-> <<>>, complete |-> FALSE]

\* file_path of _save_to_json (line 1289)
FileName(table_name) == table_name \o ".json"

\* is_driver_active() answers True (lines 99-107, 120)
DriverActive ==
  /\ rpc = "start"
  /\ driver = "active"
  /\ rpc' = "table"
  /\ UNCHANGED <<tables_data, max_retries, driver, ti, attempt, fields_data,
                 extracted_data, files, visits, surfaced, xvars, fvars, evars, wvars, gvars, dvars, avars>>

\* the driver is not active and initialize_driver succeeds (lines 120-122, 75-82)
InitializeDriver ==
  /\ rpc = "start"
  /\ driver # "active"
  /\ driver' = "active"
  /\ rpc' = "table"
  /\ UNCHANGED <<tables_data, max_retries, ti, attempt, fields_data,
                 extracted_data, files, visits, surfaced, xvars, fvars, evars, wvars, gvars, dvars, avars>>

\* the driver is not active and initialize_driver raises (lines 84-86)
InitializeDriverRaises ==
  /\ rpc = "start"
  /\ driver # "active"
  /\ surfaced' = "WebDriverException"
  /\ rpc' = "failed"
  /\ UNCHANGED <<tables_data, max_retries, driver, ti, attempt, fields_data,
                 extracted_data, files, visits, xvars, fvars, evars, wvars, gvars, dvars, avars>>

\* an entry without table or url is skipped (lines 130-132)
SkipInvalid ==
  /\ rpc = "table"
  /\ ti <= Len(tables_data)
  /\ ~ValidEntry(tables_data[ti])
  /\ ti' = ti + 1
  /\ UNCHANGED <<tables_data, max_retries, driver, attempt, fields_data,
                 extracted_data, files, visits, surfaced, rpc, xvars, fvars, evars, wvars, gvars, dvars, avars>>

\* _extract_fields_from_url is called for a valid entry (line 137)
BeginTable ==
  /\ rpc = "table"
  /\ ti <= Len(tables_data)
  /\ ValidEntry(tables_data[ti])
  /\ attempt' = 0
  /\ rpc' = "attempt"
  /\ UNCHANGED <<tables_data, max_retries, driver, ti, fields_data,
                 extracted_data, files, visits, surfaced, xvars, fvars, evars, wvars, gvars, dvars, avars>>

\* an attempt raises: the page load or the wait times out, or any other
\* call of the attempt fails (lines 160-164, 181-184)
AttemptRaises ==
  /\ rpc = "attempt"
  /\ attempt < max_retries
  /\ \E exception \in {"TimeoutException", "Exception"} :
       /\ rpc' = AttemptHandler(rpc)
       /\ surfaced' = IF AttemptHandler(rpc) = "failed" THEN exception ELSE surfaced
  /\ attempt' = attempt + 1
  /\ UNCHANGED <<tables_data, max_retries, driver, ti, fields_data,
                 extracted_data, files, visits, xvars, fvars, evars, wvars, gvars, dvars, avars>>

\* an attempt finds no two-column-left container, or extracts no field
\* (lines 168-171, 176-179)
AttemptEmpty ==
  /\ rpc = "attempt"
  /\ attempt < max_retries
  /\ attempt' = attempt + 1
  /\ UNCHANGED <<tables_data, max_retries, driver, ti, fields_data,
                 extracted_data, files, visits, surfaced, rpc, xvars, fvars, evars, wvars, gvars, dvars, avars>>

\* an attempt extracts fields: they are returned at once (lines 173-177)
AttemptFields ==
  /\ rpc = "attempt"
  /\ attempt < max_retries
  /\ \E fields \in FieldLists : fields_data' = fields
  /\ rpc' = "got"
  /\ UNCHANGED <<tables_data, max_retries, driver, ti, attempt,
                 extracted_data, files, visits, surfaced, xvars, fvars, evars, wvars, gvars, dvars, avars>>

\* range(max_retries) is exhausted: return [] (lines 190-191)
AttemptsExhausted ==
  /\ rpc = "attempt"
  /\ attempt >= max_retries
  /\ fields_data' = <<>>
  /\ rpc' = "got"
  /\ UNCHANGED <<tables_data, max_retries, driver, ti, attempt,
                 extracted_data, files, visits, surfaced, xvars, fvars, evars, wvars, gvars, dvars, avars>>

\* the result is recorded and not saved (lines 143-145)
RecordOnly ==
  /\ rpc = "got"
  /\ ~SavesFile(fields_data)
  /\ extracted_data' = Assign(extracted_data, tables_data[ti].table, <<>>)
  /\ visits' = Append(visits, [table |-> tables_data[ti].table,
                               fields |-> fields_data, saved |-> "none"])
  /\ ti' = ti + 1
  /\ rpc' = "table"
  /\ UNCHANGED <<tables_data, max_retries, driver, attempt, fields_data,
                 files, surfaced, xvars, fvars, evars, wvars, gvars, dvars, avars>>

\* the result is recorded and _save_to_json writes the file (lines 139-142,
\* 1288-1301)
RecordAndSave ==
  /\ rpc = "got"
  /\ SavesFile(fields_data)
  /\ extracted_data' = Assign(extracted_data, tables_data[ti].table, fields_data)
  /\ \E date \in Dates :
       files' = Assign(files, FileName(tables_data[ti].table),
                       OutputData(tables_data[ti].table, date, fields_data))
  /\ visits' = Append(visits, [table |-> tables_data[ti].table,
                               fields |-> fields_data, saved |-> "written"])
  /\ ti' = ti + 1
  /\ rpc' = "table"
  /\ UNCHANGED <<tables_data, max_retries, driver, attempt, fields_data,
                 surfaced, xvars, fvars, evars, wvars, gvars, dvars, avars>>

\* the result is recorded and _save_to_json fails: open() raises and leaves
\* the directory as it was, or json.dump raises and leaves a truncated file
\* (lines 1298-1299, 1303-1304)
RecordAndSaveFails ==
  /\ rpc = "got"
  /\ SavesFile(fields_data)
  /\ extracted_data' = Assign(extracted_data, tables_data[ti].table, fields_data)
  /\ \E failure \in {"open", "dump"} :
       /\ files' = IF failure = "open" THEN files
                   ELSE Assign(files, FileName(tables_data[ti].table),
                               Truncated(tables_data[ti].table))
       /\ visits' = Append(visits, [table |-> tables_data[ti].table,
                                    fields |-> fields_data, saved |-> failure])
  /\ rpc' = SaveHandler("table")
  /\ surfaced' = IF SaveHandler("table") = "failed" THEN "OSError" ELSE surfaced
  /\ ti' = ti + 1
  /\ UNCHANGED <<tables_data, max_retries, driver, attempt, fields_data,
                 xvars, fvars, evars, wvars, gvars, dvars, avars>>

\* the loop over the entries is over: return extracted_data (line 151)
ReturnExtracted ==
  /\ rpc = "table"
  /\ ti > Len(tables_data)
  /\ rpc' = "done"
  /\ UNCHANGED <<tables_data, max_retries, driver, ti, attempt, fields_data,
                 extracted_data, files, visits, surfaced, xvars, fvars, evars, wvars, gvars, dvars, avars>>

RNext ==
  \/ DriverActive
  \/ InitializeDriver
  \/ InitializeDriverRaises
  \/ SkipInvalid
  \/ BeginTable
  \/ AttemptRaises
  \/ AttemptEmpty
  \/ AttemptFields
  \/ AttemptsExhausted
  \/ RecordOnly
  \/ RecordAndSave
  \/ RecordAndSaveFails
  \/ ReturnExtracted

SpecRun == RInit /\ [][RNext]_vars

\* ------------------------------------------------------------------------
\* The attempts of _extract_fields_from_url on one table
\* ------------------------------------------------------------------------
\* what an attempt does with the live session, and what it does without it:
\*   "get"      driver.get(url) and the wait for the body (lines 160-164)
\*   "find"     _find_two_column_left_element: find_element, scrollIntoView
\*   "expand"   _expand_collapsed_elements_in_container (line 173)
\*   "capture"  container_element.get_attribute('outerHTML') (line 764)
\*   "parse"    BeautifulSoup and the extraction passes over the soup
LiveEvents == {"get", "find", "expand", "capture"}

\* the variables of the orchestrator the attempt loop does not touch
rrest == <<tables_data, max_retries, driver, ti, extracted_data, files, visits,
           surfaced, rpc>>

AInit ==
  /\ tables_data \in {<<e>> : e \in {t \in TableEntries : ValidEntry(t)}}
  /\ max_retries \in 0..MaxRetries
  /\ driver = "active"
  /\ rpc = "idle"
  /\ RCleared
  /\ apc = "loop"
  /\ session = <<>>
  /\ outcomes = <<>>
  /\ loads = 0
  /\ XIdle
  /\ FIdle
  /\ EIdle
  /\ WIdle
  /\ DIdle
  /\ GIdle

\* the attempt is over without a result: the loop goes to its next round
EndAttempt(outcome) ==
  /\ attempt' = attempt + 1
  /\ outcomes' = Append(outcomes, outcome)
  /\ apc' = "loop"
  /\ UNCHANGED fields_data

\* variant of AfterFind: the markup is captured without the engine being run
AfterFind_SkipEngine == "capture"

\* the statement after the container was found (line 173)
AfterFind == "expand"

\* variant of InRange: one round more
InRange_OneMore(k, n) == k <= n

\* range(self.max_retries) has a k-th value, counted from 0 (line 155)
InRange(k, n) == k < n

\* for attempt in range(self.max_retries) (line 155)
AttemptBegin ==
  /\ apc = "loop"
  /\ InRange(attempt, max_retries)
  /\ apc' = "load"
  /\ session' = <<>>
  /\ UNCHANGED <<attempt, fields_data, outcomes, rrest, loads, xvars, fvars, evars, wvars, gvars, dvars>>

\* driver.get and WebDriverWait (lines 160-166): the page loads, the wait
\* times out, or the driver raises
LoadPage ==
  /\ apc = "load"
  /\ session' = Append(session, "get")
  /\ loads' = loads + 1
  /\ \E o \in {"ok", "timeout", "error"} :
       IF o = "ok"
       THEN apc' = "find" /\ UNCHANGED <<attempt, fields_data, outcomes>>
       ELSE EndAttempt(o)
  /\ UNCHANGED <<rrest, xvars, fvars, evars, wvars, gvars, dvars>>

\* _find_two_column_left_element (lines 168-171, 193-210): None when the
\* element is missing or a driver call raised, and the attempt is given up
FindContainer ==
  /\ apc = "find"
  /\ session' = Append(session, "find")
  /\ \E found \in BOOLEAN :
       IF found
       THEN apc' = AfterFind /\ UNCHANGED <<attempt, fields_data, outcomes>>
       ELSE EndAttempt("no_container")
  /\ UNCHANGED <<rrest, loads, xvars, fvars, evars, wvars, gvars, dvars>>

\* the expansion engine runs and returns (line 173); it raises nothing
Expand ==
  /\ apc = "expand"
  /\ session' = Append(session, "expand")
  /\ apc' = "capture"
  /\ UNCHANGED <<attempt, fields_data, outcomes, rrest, loads, xvars, fvars, evars, wvars, gvars, dvars>>

\* _extract_fields_from_container reads outerHTML (line 764); when the read
\* raises, its handler returns the empty list (lines 799-801)
Capture ==
  /\ apc = "capture"
  /\ session' = Append(session, "capture")
  /\ \E read_ok \in BOOLEAN :
       IF read_ok
       THEN apc' = "parse" /\ UNCHANGED <<attempt, fields_data, outcomes>>
       ELSE EndAttempt("empty")
  /\ UNCHANGED <<rrest, loads, xvars, fvars, evars, wvars, gvars, dvars>>

\* the extraction passes over the parsed markup (lines 765-797), then
\* 'if fields_data: return fields_data' (lines 176-179)
Parse ==
  /\ apc = "parse"
  /\ session' = Append(session, "parse")
  /\ \E found \in FieldLists \cup {<<>>} :
       IF found # <<>>
       THEN /\ fields_data' = found
            /\ outcomes' = Append(outcomes, "fields")
            /\ apc' = "returned"
            /\ UNCHANGED attempt
       ELSE EndAttempt("empty")
  /\ UNCHANGED <<rrest, loads, xvars, fvars, evars, wvars, gvars, dvars>>

\* the attempts are used up: return [] (lines 190-191)
Exhausted ==
  /\ apc = "loop"
  /\ ~InRange(attempt, max_retries)
  /\ fields_data' = <<>>
  /\ apc' = "returned"
  /\ UNCHANGED <<attempt, session, outcomes, rrest, loads, xvars, fvars, evars, wvars, gvars, dvars>>

ANext ==
  \/ AttemptBegin
  \/ LoadPage
  \/ FindContainer
  \/ Expand
  \/ Capture
  \/ Parse
  \/ Exhausted

SpecAttempt == AInit /\ [][ANext]_vars

\* ------------------------------------------------------------------------
\* The driver of a DataRequester through calls of its public methods
\* ------------------------------------------------------------------------
\* what the calls leave in dlog:
\*   "init:ok", "init:raised"          initialize_driver returned, or raised
\*   "close:quit", "close:quit_raised" close_driver called driver.quit()
\*   "close:noop"                      close_driver found no driver
\*   "active:yes", "active:no"         the answer of is_driver_active
\*   "extract:active"                  extract_api_documentation found the
\*                                     driver active
\*   "extract:init"                    it initialised one
\*   "extract:init_raised"             its initialize_driver raised
\*   "load"                            a page load of its loop
CloseEvents == {"close:quit", "close:quit_raised", "close:noop"}
InitEvents == {"init:ok", "init:raised", "extract:init", "extract:init_raised"}

\* is_driver_active (lines 99-107): a driver is there and answers
IsDriverActive(d) == d = "active"

\* variant of AfterQuit: the reference is kept when quit() raised
AfterQuit_KeepOnError(raised) == IF raised THEN "dead" ELSE "none"

\* finally: self.driver = None (lines 96-97)
AfterQuit(raised) == "none"

\* initialize_driver (lines 75-86): how it can end, and what self.driver is
\* afterwards. "ok": the browser starts and is configured; "no_browser":
\* webdriver.Chrome raises before the assignment of line 79; "setup_fails":
\* line 80 or 81 raises after it, with a browser that answers or not
InitOutcomes == {"ok", "no_browser", "setup_alive", "setup_dead"}
AfterInitialize(d, outcome) ==
  CASE outcome = "ok" -> "active"
    [] outcome = "no_browser" -> d
    [] outcome = "setup_alive" -> "active"
    [] outcome = "setup_dead" -> "dead"

DInit ==
  /\ driver = "none"
  /\ dpc = "ready"
  /\ dlog = <<>>
  /\ quits = 0
  /\ tables_data = <<>> /\ max_retries = 0 /\ rpc = "idle"
  /\ RCleared
  /\ XIdle
  /\ FIdle
  /\ EIdle
  /\ WIdle
  /\ AIdle
  /\ GIdle

\* the variables of the orchestrator the lifecycle calls do not touch
drest == <<tables_data, max_retries, ti, attempt, fields_data, extracted_data,
           files, visits, surfaced, rpc>>

\* initialize_driver() called by the client
CallInitializeDriver ==
  /\ dpc = "ready"
  /\ Len(dlog) < MaxCalls
  /\ \E outcome \in InitOutcomes :
       /\ driver' = AfterInitialize(driver, outcome)
       /\ dlog' = Append(dlog, IF outcome = "ok" THEN "init:ok" ELSE "init:raised")
  /\ UNCHANGED <<dpc, quits, drest, xvars, fvars, evars, wvars, gvars, avars>>

\* close_driver() with a driver reference: quit() returns or raises
\* (lines 90-97)
CloseDriverQuits ==
  /\ dpc = "ready"
  /\ Len(dlog) < MaxCalls
  /\ driver # "none"
  /\ \E raised \in BOOLEAN :
       /\ driver' = AfterQuit(raised)
       /\ dlog' = Append(dlog, IF raised THEN "close:quit_raised" ELSE "close:quit")
  /\ quits' = quits + 1
  /\ UNCHANGED <<dpc, drest, xvars, fvars, evars, wvars, gvars, avars>>

\* close_driver() without one: nothing is done (line 90)
CloseDriverNoop ==
  /\ dpc = "ready"
  /\ Len(dlog) < MaxCalls
  /\ driver = "none"
  /\ dlog' = Append(dlog, "close:noop")
  /\ UNCHANGED <<driver, dpc, quits, drest, xvars, fvars, evars, wvars, gvars, avars>>

\* is_driver_active() called by the client
CallIsDriverActive ==
  /\ dpc = "ready"
  /\ Len(dlog) < MaxCalls
  /\ dlog' = Append(dlog, IF IsDriverActive(driver) THEN "active:yes" ELSE "active:no")
  /\ UNCHANGED <<driver, dpc, quits, drest, xvars, fvars, evars, wvars, gvars, avars>>

\* the browser stops answering
BrowserDies ==
  /\ dpc \in {"ready", "extract"}
  /\ driver = "active"
  /\ driver' = "dead"
  /\ UNCHANGED <<dpc, dlog, quits, drest, xvars, fvars, evars, wvars, gvars, avars>>

\* extract_api_documentation: the driver is active (line 120)
ExtractWithDriver ==
  /\ dpc = "ready"
  /\ Len(dlog) < MaxCalls
  /\ IsDriverActive(driver)
  /\ dlog' = Append(dlog, "extract:active")
  /\ dpc' = "extract"
  /\ UNCHANGED <<driver, quits, drest, xvars, fvars, evars, wvars, gvars, avars>>

\* extract_api_documentation: the driver is not active and
\* initialize_driver is called; when it raises, so does the call
\* (lines 120-122)
ExtractInitializes ==
  /\ dpc = "ready"
  /\ Len(dlog) < MaxCalls
  /\ ~IsDriverActive(driver)
  /\ \E outcome \in InitOutcomes :
       /\ driver' = AfterInitialize(driver, outcome)
       /\ dlog' = Append(dlog, IF outcome = "ok" THEN "extract:init" ELSE "extract:init_raised")
       /\ dpc' = IF outcome = "ok" THEN "extract" ELSE "ready"
  /\ UNCHANGED <<quits, drest, xvars, fvars, evars, wvars, gvars, avars>>

\* driver.get(url) of an attempt (line 160)
ExtractLoadsPage ==
  /\ dpc = "extract"
  /\ Len(dlog) < MaxCalls
  /\ dlog' = Append(dlog, "load")
  /\ UNCHANGED <<driver, dpc, quits, drest, xvars, fvars, evars, wvars, gvars, avars>>

\* return extracted_data (line 151)
ExtractReturns ==
  /\ dpc = "extract"
  /\ dpc' = "ready"
  /\ UNCHANGED <<driver, dlog, quits, drest, xvars, fvars, evars, wvars, gvars, avars>>

DNext ==
  \/ CallInitializeDriver
  \/ CloseDriverQuits
  \/ CloseDriverNoop
  \/ CallIsDriverActive
  \/ BrowserDies
  \/ ExtractWithDriver
  \/ ExtractInitializes
  \/ ExtractLoadsPage
  \/ ExtractReturns

SpecDriver == DInit /\ [][DNext]_vars

\* ------------------------------------------------------------------------
\* DataWrangler on a directory.  A path is the sequence of its components
\* from the root; the file system is a function from the paths of its
\* disk to what they hold.  The directories are fixed: the root, the data
\* directory and its subdirectory out, which __init__ creates.
\* ------------------------------------------------------------------------
\* self.data_path and self.output_path (lines 29-30)
DataPath == <<"data">>
OutputPath == DataPath \o <<"out">>
Directories == {<<>>, DataPath, OutputPath}

\* what a file holds: the extraction of a table, its normalisation, the
\* normalisation of that, something json.load rejects, or what is left of a
\* file that open() emptied and json.dump did not finish
Extracted(table) == [table |-> table, stage |-> "extracted"]
BrokenFile == [table |-> "", stage |-> "broken"]
TruncatedFile == [table |-> "", stage |-> "truncated"]

\* load_json_file returns data, and `if data` holds (lines 82-109, 280, 425-427)
LoadsData(content) == content.stage \in {"extracted", "normalized", "renormalized"}

\* what normalize_field_names makes of a loaded file: a normalised file is
\* stamped and re-keyed again
NormalizedFile(content) ==
  [content EXCEPT !.stage = IF @ = "extracted" THEN "normalized" ELSE "renormalized"]

\* the suffix of a file name
Suffix(name) ==
  CASE name \in {"x.json", "y.json"} -> "json"
    [] name = "notes.txt" -> "txt"
    [] OTHER -> ""

\* variant of DetectFiles: the pattern is matched in the subdirectories too
DetectFiles_Recursive(disk, extension) ==
  {p \in DOMAIN disk :
     /\ Len(p) > Len(DataPath)
     /\ SubSeq(p, 1, Len(DataPath)) = DataPath
     /\ Suffix(p[Len(p)]) = extension}

\* detect_files: self.data_path.glob("*." + extension), files only
\* (lines 58-74): the files that lie in the data directory itself
DetectFiles(disk, extension) ==
  {p \in DOMAIN disk :
     /\ Len(p) = Len(DataPath) + 1
     /\ SubSeq(p, 1, Len(DataPath)) = DataPath
     /\ Suffix(p[Len(p)]) = extension}

\* a filename argument: absolute or not, and its components
Plain(name) == [abs |-> FALSE, parts |-> <<name>>]
Filenames ==
  { Plain("x"), Plain("x.json"), Plain("y.json"),
    [abs |-> FALSE, parts |-> <<"out", "x.json">>],
    [abs |-> FALSE, parts |-> <<"..", "x.json">>],
    [abs |-> TRUE, parts |-> <<"data", "x.json">>] }

\* if not filename.endswith('.json'): filename += '.json' (lines 415-416)
WithJson(filename) ==
  LET last == filename.parts[Len(filename.parts)] IN
  IF Suffix(last) = "json" THEN filename
  ELSE [filename EXCEPT !.parts[Len(filename.parts)] = last \o ".json"]

\* base / filename of pathlib: an absolute right operand replaces the left
Join(base, filename) == IF filename.abs THEN filename.parts ELSE base \o filename.parts

\* the file a path leads to: a component ".." leads to the parent
RECURSIVE ResolveFrom(_, _, _)
ResolveFrom(at, target, k) ==
  IF k > Len(target) THEN at
  ELSE IF target[k] = ".."
       THEN ResolveFrom(IF at = <<>> THEN at ELSE SubSeq(at, 1, Len(at) - 1), target, k + 1)
       ELSE ResolveFrom(Append(at, target[k]), target, k + 1)
Resolve(target) == ResolveFrom(<<>>, target, 1)

\* output_file = self.output_path / file_path.name (line 291)
OutputFile(file_path) == OutputPath \o <<file_path[Len(file_path)]>>

\* save_json_file (lines 111-133): the file is written; open() raises and
\* nothing is changed; json.dump raises and leaves the file emptied. A
\* file cannot be opened in a directory that does not exist
SaveOutcomes == {"saved", "open", "dump"}
SaveIn(target, outcome) ==
  IF SubSeq(target, 1, Len(target) - 1) \in Directories THEN outcome ELSE "open"
AfterSave(disk, target, content, outcome) ==
  CASE SaveIn(target, outcome) = "saved" -> Store(disk, target, content)
    [] SaveIn(target, outcome) = "dump" -> Store(disk, target, TruncatedFile)
    [] OTHER -> disk

\* the directory a DataWrangler is created on: files of the data
\* directory, a file left in out by an earlier run, a file beside the
\* data directory
InitialFiles ==
  { (<<"data", "x.json">> :> Extracted("x")),
    (<<"data", "y.json">> :> Extracted("y")),
    (<<"data", "y.json">> :> BrokenFile),
    (<<"data", "notes.txt">> :> BrokenFile),
    (<<"data", "out", "x.json">> :> NormalizedFile(Extracted("x"))),
    (<<"x.json">> :> Extracted("x")) }

RECURSIVE Union(_)
Union(fileset) ==
  IF fileset = {} THEN <<>>
  ELSE LET f == CHOOSE g \in fileset : TRUE IN f @@ Union(fileset \ {f})

GInit ==
  /\ \E chosen \in SUBSET InitialFiles :
       /\ \A f, g \in chosen : (DOMAIN f = DOMAIN g) => f = g
       /\ fs = Union(chosen)
  /\ fs0 = fs
  /\ detected = {}
  /\ written = {}
  /\ asked = {}
  /\ gops = 0
  /\ gpc = "ready"
  /\ XIdle
  /\ FIdle
  /\ EIdle
  /\ WIdle
  /\ RIdle
  /\ AIdle
  /\ DIdle

\* detect_files(file_extension) called by the client
CallDetectFiles ==
  /\ gpc = "ready"
  /\ gops < MaxOps
  /\ \E extension \in {"json", "txt"} : detected' = DetectFiles(fs, extension)
  /\ gops' = gops + 1
  /\ UNCHANGED <<fs, fs0, written, asked, gpc, xvars, fvars, evars, wvars, rvars, avars, dvars>>

\* the files process_files loads, and what its loop leaves on the disk
\* (lines 274-296): each iteration reads its file from the disk as the
\* iterations before it left it
LoadedFiles(disk, extension) ==
  {p \in DetectFiles(disk, extension) : extension = "json" /\ LoadsData(disk[p])}
Saved(loaded, outcome) ==
  {OutputFile(p) : p \in {q \in loaded : SaveIn(OutputFile(q), outcome[q]) # "open"}}
RECURSIVE AfterLoop(_, _, _)
AfterLoop(disk, todo, outcome) ==
  IF todo = {} THEN disk
  ELSE LET p == CHOOSE q \in todo : TRUE IN
       AfterLoop(AfterSave(disk, OutputFile(p), NormalizedFile(disk[p]), outcome[p]),
                 todo \ {p}, outcome)

\* process_files(file_extension, normalize) (lines 242-321)
ProcessFiles ==
  /\ gpc = "ready"
  /\ gops < MaxOps
  /\ \E extension \in {"json", "txt"}, normalize \in BOOLEAN :
       LET loaded == LoadedFiles(fs, extension) IN
       /\ detected' = DetectFiles(fs, extension)
       /\ IF normalize
          THEN \E outcome \in [loaded -> SaveOutcomes] :
                 /\ fs' = AfterLoop(fs, loaded, outcome)
                 /\ written' = written \cup Saved(loaded, outcome)
          ELSE UNCHANGED <<fs, written>>
  /\ gops' = gops + 1
  /\ UNCHANGED <<fs0, asked, gpc, xvars, fvars, evars, wvars, rvars, avars, dvars>>

\* normalize_single_file(filename) (lines 404-441): file_path is
\* self.data_path / filename (line 418), output_file is
\* self.output_path / filename (line 433)
NormalizeSingleFile ==
  /\ gpc = "ready"
  /\ gops < MaxOps
  /\ \E filename \in Filenames :
       LET file_path == Resolve(Join(DataPath, WithJson(filename)))
           output_file == Resolve(Join(OutputPath, WithJson(filename)))
       IN /\ asked' = asked \cup {filename}
          /\ IF file_path \in DOMAIN fs /\ LoadsData(fs[file_path])
             THEN \E outcome \in SaveOutcomes :
                    /\ fs' = AfterSave(fs, output_file, NormalizedFile(fs[file_path]), outcome)
                    /\ written' = IF SaveIn(output_file, outcome) = "open" THEN written
                                  ELSE written \cup {output_file}
             ELSE UNCHANGED <<fs, written>>
  /\ gops' = gops + 1
  /\ UNCHANGED <<fs0, detected, gpc, xvars, fvars, evars, wvars, rvars, avars, dvars>>

GNext ==
  \/ CallDetectFiles
  \/ ProcessFiles
  \/ NormalizeSingleFile

SpecWrangle == GInit /\ [][GNext]_vars




Next ==
  \/ ExtractContentMode
  \/ ExtractFlatMode
  \/ ExtractSimpleMode
  \/ ExtractContentRaises
  \/ ExtractError

Spec == XInit /\ [][Next]_vars

\* ------------------------------------------------------------------------
\* Properties of the extractor
\* ------------------------------------------------------------------------
Names(fields) == [j \in 1..Len(fields) |-> fields[j].name]
Hierarchical == xpc = "done" /\ path \in {"content", "flat"}
HasContentRow(snap) == \E k \in 1..Len(snap) : IsContentName(snap[k].name)

IsComposite(item) == Lower(FieldTypeOf(item.row)) \in CompositeTypes
IsWrapperItem(item, hc) == hc /\ Lower(item.name) = "content"

\* the row list is well nested: it starts at level 0, a row is at most one
\* level deeper than the row before it, and only under a composite row
WellNested(h) ==
  /\ \A i \in 1..Len(h) : h[i].level < 10
  /\ Len(h) > 0 => h[1].level = 0
  /\ \A i \in 2..Len(h) :
        /\ h[i].level <= h[i-1].level + 1
        /\ h[i].level > h[i-1].level => IsComposite(h[i-1])

\* the enclosing row of row i: the nearest earlier row of a lower level (0: none)
ParentIdx(h, i) ==
  LET lower == {j \in 1..(i-1) : h[j].level < h[i].level} IN
  IF lower = {} THEN 0 ELSE CHOOSE j \in lower : \A k \in lower : k <= j

\* names of the enclosing composite rows of row i, outermost first; the
\* content wrapper of content mode encloses without naming
RECURSIVE AncestorNames(_, _, _)
AncestorNames(h, i, hc) ==
  LET p == ParentIdx(h, i) IN
  IF p = 0 THEN <<>>
  ELSE AncestorNames(h, p, hc)
       \o (IF IsComposite(h[p]) /\ ~IsWrapperItem(h[p], hc) THEN <<h[p].name>> ELSE <<>>)

ExpectedName(h, i, hc) ==
  IF IsWrapperItem(h[i], hc) THEN h[i].name
  ELSE JoinUnderscore(AncestorNames(h, i, hc) \o <<h[i].name>>)

DistinctExpected(h, hc) ==
  \A i, j \in 1..Len(h) : i # j => ExpectedName(h, i, hc) # ExpectedName(h, j, hc)

\* the expected names of the rows that are output, in row order
RECURSIVE ExpectedOutput(_, _, _)
ExpectedOutput(h, i, hc) ==
  IF i > Len(h) THEN <<>>
  ELSE (IF IsWrapperItem(h[i], hc) THEN <<>> ELSE <<ExpectedName(h, i, hc)>>)
       \o ExpectedOutput(h, i + 1, hc)

\* the conditions on the row list other than its starting level
NestedAfterFirst(h) ==
  /\ \A i \in 1..Len(h) : h[i].level < 10
  /\ \A i \in 2..Len(h) :
        /\ h[i].level <= h[i-1].level + 1
        /\ h[i].level > h[i-1].level => IsComposite(h[i-1])

\* C1 as stated: for a row list in which a row is at most one level deeper
\* than the row before it, and deeper only under a composite row, with all
\* levels below 10 and no colliding names, the hierarchy pass names every row
\* by its enclosing composite ancestors joined with "_" and its own name.
Cex_C1 ==
  (/\ Hierarchical
   /\ NestedAfterFirst(result.hierarchy)
   /\ DistinctExpected(result.hierarchy, result.has_content))
  => Names(result.fields) = ExpectedOutput(result.hierarchy, 1, result.has_content)

\* C1 (amended): the same for a row list that also starts at level 0; the
\* rows (0,a,object),(1,b,string),(1,c,object),(2,d,string) yield
\* a, a_b, a_c, a_c_d in that order.
Thm_C1 ==
  Hierarchical =>
    /\ (WellNested(result.hierarchy) /\ DistinctExpected(result.hierarchy, result.has_content))
         => Names(result.fields) = ExpectedOutput(result.hierarchy, 1, result.has_content)
    /\ snapshot = HierarchyFixture
         => Names(result.fields) = <<"a", "a_b", "a_c", "a_c_d">>

Wit_C1 ==
  /\ Hierarchical
  /\ snapshot = HierarchyFixture
  /\ WellNested(result.hierarchy)
  /\ DistinctExpected(result.hierarchy, result.has_content)
  /\ Names(result.fields) = <<"a", "a_b", "a_c", "a_c_d">>

\* index of the first pagination row at or after row start (0: none)
RECURSIVE FirstPagination(_, _)
FirstPagination(rows, k) ==
  IF k > Len(rows) THEN 0
  ELSE IF rows[k].name # NoElem /\ Lower(rows[k].name) \in PaginationNames THEN k
  ELSE FirstPagination(rows, k + 1)

FirstEnumerated(snap) ==
  IF path = "content" THEN ContentFieldIndex(SchemaRows(snap), 1) ELSE 1

\* C2: in content mode and in flat mode alike, no row at or after the first
\* pagination row of the enumeration produces a record; the rows
\* field1, page, field2 without a content row yield exactly field1.
Cex_C2 ==
  Hierarchical =>
    LET pag == FirstPagination(SchemaRows(snapshot), FirstEnumerated(snapshot)) IN
    /\ pag > 0 => \A j \in 1..Len(result.fields) : result.from[j] < pag
    /\ snapshot = PaginationFixture => Names(result.fields) = <<"field1">>

\* no record is named content and content is no component of a prefixed name
ContentFree ==
  \A j \in 1..Len(result.fields) :
    /\ Lower(result.fields[j].name) # "content"
    /\ \A c \in 1..Len(result.paths[j]) : Lower(result.paths[j][c]) # "content"

SourceRow(j) == SchemaRows(snapshot)[result.from[j]]

\* C4 as stated: in content mode every record's hierarchy_level is its
\* detected level minus one, in flat mode it is the detected level.
Cex_C4 ==
  Hierarchical =>
    \A j \in 1..Len(result.fields) :
      result.fields[j].hierarchy_level =
        IF path = "content" THEN DetectLevelFromParent(SourceRow(j)) - 1
        ELSE DetectLevelFromParent(SourceRow(j))

\* C4 (amended): in content mode a record's hierarchy_level is its detected
\* level minus one when the detected level is above 0 and 0 when it is 0;
\* in flat mode it is the detected level.
Thm_C4 ==
  Hierarchical =>
    \A j \in 1..Len(result.fields) :
      LET d == DetectLevelFromParent(SourceRow(j)) IN
      result.fields[j].hierarchy_level =
        IF path = "content" THEN (IF d > 0 THEN d - 1 ELSE 0) ELSE d

Wit_C4 ==
  /\ xpc = "done" /\ path = "content"
  /\ \E j, k \in 1..Len(result.fields) :
        /\ DetectLevelFromParent(SourceRow(j)) = 2
        /\ result.fields[j].hierarchy_level = 1
        /\ DetectLevelFromParent(SourceRow(k)) = 0
        /\ result.fields[k].hierarchy_level = 0

\* the first item of the pass that produced prefixed name n
FirstMaking(made, n) ==
  CHOOSE k \in 1..Len(made) : made[k] = n /\ \A m \in 1..(k-1) : made[m] # n

\* the first element of the snapshot whose name text is n
FirstNamed(snap, n) ==
  CHOOSE k \in 1..Len(snap) : snap[k].name = n /\ \A m \in 1..(k-1) : snap[m].name # n

RecordsNamed(fields, n) == {j \in 1..Len(fields) : fields[j].name = n}

Unchanged == node = node0
PositionChanged == node.x # node0.x \/ node.y # node0.y

\* C10 as stated: between two calls, an unchanged node keeps its id and a
\* node whose text, classes or position changed gets another id.
Cex_C10 ==
  fpc = "called2" =>
    /\ Unchanged => id1 = id2
    /\ (node.text # node0.text \/ node.classes # node0.classes \/ PositionChanged)
         => id1 # id2

\* C10 (amended): when the attribute reads of both calls succeed, an
\* unchanged node keeps its id, and a node of which the classes, the
\* position, or the first 100 characters of the text as normalised
\* (newlines to spaces, stripped) changed gets another id.
Thm_C10 ==
  (fpc = "called2" /\ ok1 /\ ok2) =>
    /\ Unchanged => id1 = id2
    /\ (\/ TextContent(node.text) # TextContent(node0.text)
        \/ node.classes # node0.classes
        \/ PositionChanged)
         => id1 # id2

Wit_C10 ==
  /\ fpc = "called2" /\ ok1 /\ ok2
  /\ PositionChanged
  /\ id1 # id2
  /\ Len(node.text) > TextLimit

\* ------------------------------------------------------------------------
\* Properties of the expansion engine (SpecExpand)
\* ------------------------------------------------------------------------
\* C7 as stated: within one run of the engine, whatever passes it goes
\* through, no fingerprint is clicked more than once.
Cex_C7 == clicked_twice = {}

\* all clicks of one run, growth or not
BudgetTotal ==
  max_expansions + max_object_expansions + max_array_object_expansions
    + original_max_expansions

\* C8 as stated: the number of clicks of one invocation is bounded by the
\* budget constants, however many expandable nodes the region holds and
\* whether or not the clicks produce growth.
Cex_C8 == clicks <= BudgetTotal

\* growth-confirmed expansions of the scoped, object and array[object]
\* passes together, as line 356 sums them
ScopedPhases == {"scoped", "object", "array"}
TotalExpansions ==
  IF epc \in ScopedPhases
  THEN expanded_count + object_expanded_count + array_object_expanded_count
  ELSE expanded_count

\* C9 as stated: the successful expansions of one invocation, summed over
\* the strategies, never exceed max_expansions.
Cex_C9 == TotalExpansions + orig_expanded_count <= max_expansions

\* C9 amended: each strategy has its own ceiling (scoped 50, object 30,
\* array[object] 20, positional fallback 50), so the sum the main path
\* reports never exceeds 100.
Thm_C9 ==
  /\ epc \in ScopedPhases => expanded_count <= max_expansions
  /\ object_expanded_count <= max_object_expansions
  /\ array_object_expanded_count <= max_array_object_expansions
  /\ orig_expanded_count <= original_max_expansions
  /\ TotalExpansions
       <= max_expansions + max_object_expansions + max_array_object_expansions

\* the engine returned after each of the three passes used up its own ceiling
Wit_C9 ==
  /\ epc = "returned"
  /\ object_expanded_count = max_object_expansions
  /\ array_object_expanded_count = max_array_object_expansions
  /\ expanded_count
       = max_expansions + max_object_expansions + max_array_object_expansions

\* the engine has not let an exception through to its caller
NeverRaises == epc # "raised"

\* a candidate loop is left only at the end of its list or of its budget
LeavesPassDone ==
  /\ (epc = "scoped" /\ epc' # "scoped") => (ei > Len(cands) \/ ~ScopedBudgetLeft)
  /\ (epc = "object" /\ epc' # "object") => (ei > Len(cands) \/ ~ObjectBudgetLeft)
  /\ (epc = "array" /\ epc' # "array") => (ei > Len(cands) \/ ~ArrayBudgetLeft)
  /\ (epc = "orig_click" /\ epc' # "orig_click")
       => (ei > Len(cands) \/ ~OriginalBudgetLeft)

\* C11: the engine never raises to its caller, whichever locator, scroll or
\* click operation fails in whichever strategy, and a candidate that fails
\* does not keep the remaining candidates of its pass from being processed.
Thm_C11 == []NeverRaises /\ [][LeavesPassDone]_vars

\* the first candidate of the scoped pass refused every click attempt and
\* the second one was clicked after it
Wit_C11 ==
  /\ epc = "scoped"
  /\ Len(cands) >= 2
  /\ ei = 3
  /\ region[cands[1].idx].displayed
  /\ region[cands[1].idx].parent
  /\ ~ScopedClickSucceeds(region[cands[1].idx])
  /\ GetElementIdentifier(region[cands[2].idx].el) \in clicked_once

\* C12 as stated: on every path the engine hands its caller the total
\* expansion count and the clicked-fingerprint set of the invocation.
Cex_C12 ==
  epc = "returned" => (~ret.none /\ ret.clicked = clicked_elements)

\* C12 amended: on every path (scoped path, positional fallback, error
\* path) the engine returns None; the counts and the clicked set stay local
\* to the invocation.
Thm_C12 == epc = "returned" => ret = NoneValue

\* the engine returned from the scoped path after clicks that grew the region
Wit_C12 ==
  /\ epc = "returned"
  /\ ret = NoneValue
  /\ orig_expanded_count = 0
  /\ expanded_count > 0
  /\ clicked_elements # {}

\* C15: at the start of every page visit the clicked set is empty, so the
\* set an engine run consults holds only fingerprints clicked in that visit
\* and a fingerprint clicked in another visit never makes a candidate skipped.
Thm_C15 ==
  /\ epc \notin {"start", "idle"} => clicked_elements \subseteq clicked_once
  /\ (epc \in {"scoped", "orig_step"} /\ clicks = 0) => clicked_elements = {}

\* in the second visit of a page a fingerprint clicked in the first visit
\* is clicked again
Wit_C15 ==
  /\ visit = 2
  /\ clicked_once \cap clicked_before # {}

\* ------------------------------------------------------------------------
\* Properties of the run over the table entries (SpecRun)
\* ------------------------------------------------------------------------
\* number of valid entries among the first n
RECURSIVE ValidBefore(_)
ValidBefore(n) ==
  IF n = 0 THEN 0
  ELSE ValidBefore(n - 1) + (IF ValidEntry(tables_data[n]) THEN 1 ELSE 0)

\* every result recorded for the table so far was empty
OnlyEmptyResults(table) ==
  \A j \in 1..Len(visits) : visits[j].table = table => visits[j].fields = <<>>

\* C13: when every attempt for a target yields no field or fails,
\* _extract_fields_from_url returns an empty list without raising,
\* extract_api_documentation records the table with an empty list, writes no
\* file for it and goes on with the next entry.
Thm_C13 ==
  /\ (rpc = "got" /\ attempt >= max_retries) => fields_data = <<>>
  /\ rpc = "failed" => (attempt = 0 /\ visits = <<>>)
  /\ \A j \in 1..Len(visits) :
       visits[j].fields = <<>> =>
         /\ visits[j].saved = "none"
         /\ OnlyEmptyResults(visits[j].table) =>
              /\ FileName(visits[j].table) \notin DOMAIN files
              /\ extracted_data[visits[j].table] = <<>>
  /\ rpc \in {"table", "done"} => Len(visits) = ValidBefore(ti - 1)

\* both attempts for the first table failed, and the second table was
\* processed and saved after it
Wit_C13 ==
  /\ rpc = "done"
  /\ max_retries = 2
  /\ Len(visits) = 2
  /\ visits[1].fields = <<>>
  /\ visits[2].fields # <<>>
  /\ visits[2].table # visits[1].table
  /\ DOMAIN files = {FileName(visits[2].table)}

\* C14: for well-formed entries the only failure that leaves
\* extract_api_documentation is a failure of initialize_driver; navigation,
\* expansion, extraction and file-saving errors are caught and the run goes on.
Thm_C14 ==
  /\ (rpc = "failed") = (surfaced # "none")
  /\ surfaced # "none" =>
       /\ surfaced = "WebDriverException"
       /\ driver # "active"
       /\ ti = 1 /\ attempt = 0 /\ visits = <<>> /\ files = <<>>

\* a write failed for the first table, every attempt failed for the second,
\* and the run returned its mapping
Wit_C14 ==
  /\ rpc = "done"
  /\ surfaced = "none"
  /\ Len(visits) = 2
  /\ visits[1].saved \in {"open", "dump"}
  /\ visits[2].fields = <<>>
  /\ max_retries > 0

\* the file of the table is complete and holds the identifier, a timestamp,
\* the field list and its length
SavedFile(table, fields) ==
  /\ FileName(table) \in DOMAIN files
  /\ files[FileName(table)].complete
  /\ files[FileName(table)].table_name = table
  /\ files[FileName(table)].extraction_date \in Dates
  /\ files[FileName(table)].fields = fields
  /\ files[FileName(table)].total_fields = Len(fields)

\* C17 as stated: every table whose extraction returned a non-empty list
\* has exactly one file named after it, with identifier, timestamp, count
\* and field list, the count being the length of the list; a table with an
\* empty result has no file.
Cex_C17 ==
  rpc = "done" =>
    \A table \in DOMAIN extracted_data :
      IF extracted_data[table] # <<>>
      THEN SavedFile(table, extracted_data[table])
      ELSE FileName(table) \notin DOMAIN files

\* the last visit of the table that touched its file (0: none)
LastTouch(table) ==
  LET touching == {j \in 1..Len(visits) :
                     visits[j].table = table /\ visits[j].saved \in {"written", "dump"}}
  IN IF touching = {} THEN 0 ELSE CHOOSE j \in touching : \A k \in touching : k <= j

\* C17 amended: one write is attempted for every processed entry with a
\* non-empty result and none for an entry with an empty result; a write
\* that succeeds leaves the file named after the table with the identifier,
\* a timestamp, the field list and its length as count; a write that fails
\* leaves no file or a truncated one; a file is never removed.
Thm_C17 ==
  /\ \A j \in 1..Len(visits) : (visits[j].fields = <<>>) = (visits[j].saved = "none")
  /\ \A table \in TableNames :
       LET j == LastTouch(table) IN
         IF j = 0 THEN FileName(table) \notin DOMAIN files
         ELSE IF visits[j].saved = "written" THEN SavedFile(table, visits[j].fields)
         ELSE /\ FileName(table) \in DOMAIN files
              /\ ~files[FileName(table)].complete
  /\ DOMAIN files \subseteq {FileName(table) : table \in TableNames}

\* two tables were processed: the first was saved with its two fields, the
\* second had no field and no file
Wit_C17 ==
  /\ rpc = "done"
  /\ Len(visits) = 2
  /\ visits[1].saved = "written"
  /\ Len(visits[1].fields) = 2
  /\ visits[2].saved = "none"
  /\ visits[2].table # visits[1].table
  /\ SavedFile(visits[1].table, visits[1].fields)
  /\ DOMAIN files = {FileName(visits[1].table)}

\* ------------------------------------------------------------------------
\* Properties of the normaliser (SpecNormalize)
\* ------------------------------------------------------------------------
\* the examples of the docstring of camel_to_snake_case (lines 139-143)
DocumentedExamples ==
  { <<<<"s", "t", "o", "c", "k", "L", "o", "c", "a", "l", "_", "p", "r", "i", "o", "r", "i", "t", "y", "P", "o", "i", "n", "t", "s">>,
      <<"s", "t", "o", "c", "k", "_", "l", "o", "c", "a", "l", "_", "p", "r", "i", "o", "r", "i", "t", "y", "_", "p", "o", "i", "n", "t", "s">>>>,
    <<<<"s", "t", "o", "c", "k", "L", "o", "c", "a", "l", "_", "d", "e", "f", "a", "u", "l", "t", "L", "o", "c", "a", "l">>,
      <<"s", "t", "o", "c", "k", "_", "l", "o", "c", "a", "l", "_", "d", "e", "f", "a", "u", "l", "t", "_", "l", "o", "c", "a", "l">>>>,
    <<<<"c", "a", "t", "e", "g", "o", "r", "y", "I", "d">>,
      <<"c", "a", "t", "e", "g", "o", "r", "y", "_", "i", "d">>>>,
    <<<<"f", "i", "r", "s", "t", "N", "a", "m", "e">>,
      <<"f", "i", "r", "s", "t", "_", "n", "a", "m", "e">>>> }

\* lower-case letters and digits in words joined by single underscores
IsSnakeCase(name) ==
  /\ name # <<>>
  /\ \A k \in 1..Len(name) : IsLowerOrDigit(name[k]) \/ name[k] = "_"
  /\ name[1] # "_" /\ name[Len(name)] # "_"
  /\ \A k \in 1..(Len(name) - 1) : ~(name[k] = "_" /\ name[k + 1] = "_")

\* C19: camel_to_snake_case maps the documented examples as stated, and a
\* name that is already snake_case is returned unchanged.
Thm_C19 ==
  (wpc = "done" /\ wout.kind = "name") =>
    /\ \A ex \in DocumentedExamples : wname = ex[1] => wout.value = ex[2]
    /\ IsSnakeCase(wname) => wout.value = wname

\* the first documented example was converted
Wit_C19 ==
  /\ wpc = "done"
  /\ wname = <<"s", "t", "o", "c", "k", "L", "o", "c", "a", "l", "_", "p", "r", "i", "o", "r", "i", "t", "y", "P", "o", "i", "n", "t", "s">>
  /\ wout = Wrapped("name", <<"s", "t", "o", "c", "k", "_", "l", "o", "c", "a", "l", "_", "p", "r", "i", "o", "r", "i", "t", "y", "_", "p", "o", "i", "n", "t", "s">>)

\* the output holds, for the eligible input fields in their order, the
\* re-keyed fields, and the summary counts them
Rekeyed(input, output) ==
  LET given == SelectSeq(input["fields"].items, Eligible)
      out == output["fields"].items
  IN /\ Len(out) = Len(given)
     /\ \A k \in 1..Len(given) :
          /\ out[k].isdict
          /\ DOMAIN out[k].d = DOMAIN given[k].d \cup {"original_field_name"}
          /\ out[k].d["original_field_name"] = given[k].d["name"]
          /\ out[k].d["name"] = Val(camel_to_snake_case(given[k].d["name"].chars))
          /\ \A key \in DOMAIN given[k].d \ {"name", "original_field_name"} :
               out[k].d[key] = given[k].d[key]
     /\ "normalization_summary" \in DOMAIN output
     /\ output["normalization_summary"].total_fields = Len(out)
     /\ output["normalization_summary"].fields_renamed
          = Cardinality({k \in 1..Len(given) : out[k].d["name"] # given[k].d["name"]})

\* C18 as stated: for each input field that is a dict with a name the
\* output has one field, in the same order, with original_field_name the
\* input name, name its camel_to_snake_case and the other keys unchanged;
\* total_fields counts the output fields and fields_renamed those whose
\* name changed.
Cex_C18 ==
  (wpc = "done" /\ wdata # NoData /\ HasFieldList(wdata.value))
    => Rekeyed(wdata.value, wout.value)

\* C18 amended: the same, when the name of every such field is a string;
\* when one of them is not, the input is returned as it was given, with no
\* field re-keyed and no summary.
Thm_C18 ==
  (wpc = "done" /\ wdata # NoData /\ HasFieldList(wdata.value)) =>
    IF NormalizeRaisesOn(wdata.value)
    THEN wout.value = wdata.value
    ELSE Rekeyed(wdata.value, wout.value)

\* a list of a camel-case field and an item without name was normalised:
\* one field came out, renamed
Wit_C18 ==
  /\ wpc = "done"
  /\ wout.kind = "normalized"
  /\ Len(wdata.value["fields"].items) = 2
  /\ Eligible(wdata.value["fields"].items[1])
  /\ ~Eligible(wdata.value["fields"].items[2])
  /\ Len(wout.value["fields"].items) = 1
  /\ wout.value["normalization_summary"].fields_renamed = 1

\* ------------------------------------------------------------------------
\* Records and stack of the extractor (Spec)
\* ------------------------------------------------------------------------
RecordKeys == {"name", "description", "field_type", "original_name", "hierarchy_level"}

\* C16 as stated: every record of every non-empty result, whichever path
\* produced it, has exactly the keys name, description, field_type,
\* original_name and hierarchy_level.
Cex_C16 ==
  xpc = "done" =>
    \A j \in 1..Len(result.fields) : DOMAIN result.fields[j] = RecordKeys

\* the row is pushed as a parent when it is output
Pushed(h, i, hc) ==
  IsComposite(h[i]) /\ h[i].level < MaxPushLevel /\ ~IsWrapperItem(h[i], hc)

\* the row list starts at level 0 and a row is deeper than the row before
\* it only by one level and only when that row is pushed
StackNested(h, hc) ==
  /\ Len(h) > 0 => h[1].level = 0
  /\ \A i \in 2..Len(h) :
       h[i].level <= h[i-1].level + (IF Pushed(h, i-1, hc) THEN 1 ELSE 0)

\* no two rows of the list are given the same prefixed name
DistinctMade(made) == \A i, j \in 1..Len(made) : i # j => made[i] # made[j]

\* C20 as stated: when a row at level L is named, after the popping, the
\* ancestor stack has length exactly L, for every row of every row list.
Cex_C20 ==
  Hierarchical =>
    \A k \in 1..Len(result.hierarchy) : result.depths[k] = result.hierarchy[k].level

\* C20 amended: when a row at level L is named the ancestor stack has
\* length at most L; its length is L for every row of a list that starts at
\* level 0, in which a row is deeper than the row before it only by one
\* level and only after a composite row below level 10 other than the
\* content wrapper, and in which no two rows get the same prefixed name.
Thm_C20 ==
  Hierarchical =>
    /\ Len(result.depths) = Len(result.hierarchy)
    /\ \A k \in 1..Len(result.hierarchy) : result.depths[k] <= result.hierarchy[k].level
    /\ (StackNested(result.hierarchy, result.has_content) /\ DistinctMade(result.made))
         => \A k \in 1..Len(result.hierarchy) :
              result.depths[k] = result.hierarchy[k].level

\* the rows (0,a,object),(1,b,string),(1,c,object),(2,d,string) were named
\* with stacks of 0, 1, 1 and 2 ancestors: c was named after b's pop to 1
Wit_C20 ==
  /\ Hierarchical
  /\ snapshot = HierarchyFixture
  /\ StackNested(result.hierarchy, result.has_content)
  /\ DistinctMade(result.made)
  /\ result.depths = <<0, 1, 1, 2>>

\* row k of the list is processed: its prefixed name was not seen before,
\* so that a record is appended for it
Processed(made, k) == \A j \in 1..(k-1) : made[j] # made[k]

\* C21 as stated: a processed row pushes its own name onto the ancestor
\* stack if and only if its declared type is object or array[object] and it
\* is not the content wrapper of content mode.
Cex_C21 ==
  Hierarchical =>
    \A k \in 1..Len(result.hierarchy) :
      Processed(result.made, k) =>
        (result.pushed[k] <=>
           (IsComposite(result.hierarchy[k])
              /\ ~IsWrapperItem(result.hierarchy[k], result.has_content)))

\* C21 amended: a processed row pushes its own name if and only if its
\* declared type is object or array[object], its level is below 10 and it is
\* not the content wrapper of content mode; a row of any other type, and a
\* row skipped as a duplicate, is never pushed.
Thm_C21 ==
  Hierarchical =>
    /\ Len(result.pushed) = Len(result.hierarchy)
    /\ \A k \in 1..Len(result.hierarchy) :
         /\ Processed(result.made, k) =>
              (result.pushed[k] <=>
                 (/\ IsComposite(result.hierarchy[k])
                  /\ result.hierarchy[k].level < 10
                  /\ ~IsWrapperItem(result.hierarchy[k], result.has_content)))
         /\ ~IsComposite(result.hierarchy[k]) => ~result.pushed[k]
         /\ ~Processed(result.made, k) => ~result.pushed[k]

\* of the rows (0,a,object),(1,b,string),(1,c,object),(2,d,string), a and c
\* were pushed and b and d were not; d was named under a and c
Wit_C21 ==
  /\ Hierarchical
  /\ snapshot = HierarchyFixture
  /\ result.pushed = <<TRUE, FALSE, TRUE, FALSE>>
  /\ result.paths[4] = <<"a", "c", "d">>

\* ------------------------------------------------------------------------
\* Clicks of the engine (SpecExpand)
\* ------------------------------------------------------------------------
\* direct click, script click on the clickable ancestor, script click on
\* the affordance element itself
Escalation == <<"direct", "js", "icon">>

\* the attempts of the last iteration follow the escalation: in its order,
\* each after the one before it failed, and the candidate is given up only
\* after all three
Escalated(try, n) ==
  /\ Len(try.tried) \in 1..Len(Escalation)
  /\ try.tried = SubSeq(Escalation, 1, Len(try.tried))
  /\ \A j \in 1..(Len(try.tried) - 1) : n.click # try.tried[j]
  /\ try.clicked <=> n.click = try.tried[Len(try.tried)]
  /\ ~try.clicked => try.tried = Escalation

\* C22 as stated: for every candidate of every strategy the clicks are
\* attempted in the order direct, script on the clickable ancestor, script
\* on the affordance itself, each only after the one before it failed, and
\* the candidate is skipped only when all three failed.
Cex_C22 ==
  last_try.idx # 0 => Escalated(last_try, region[last_try.idx])

\* the expansion counter of the running pass
PassCounter ==
  CASE epc = "scoped" -> expanded_count
    [] epc = "object" -> object_expanded_count
    [] epc = "array" -> array_object_expanded_count
    [] OTHER -> 0

\* an iteration of the scoped, object or array[object] loop whose click was
\* accepted
ClickAccepted ==
  /\ epc \in {"scoped", "object", "array"}
  /\ epc' = epc
  /\ last_try'.idx # 0
  /\ last_try'.clicked

\* C23: in the scoped, object and array[object] passes every candidate
\* whose click succeeded has its fingerprint in the clicked set afterwards,
\* whether or not the field count grew; the expansion counter of the pass
\* goes up by one when it grew and stays when it did not.
Thm_C23 ==
  [][ClickAccepted =>
       LET n == region[last_try'.idx] IN
       /\ GetElementIdentifier(n.el) \in clicked_elements'
       /\ PassCounter' = PassCounter + (IF n.grows THEN 1 ELSE 0)]_vars

\* a click of the scoped pass was accepted, added no field, and the
\* fingerprint of its candidate is in the clicked set with the counter at 0
Wit_C23 ==
  /\ epc = "scoped"
  /\ last_try.idx # 0
  /\ last_try.clicked
  /\ ~region[last_try.idx].grows
  /\ GetElementIdentifier(region[last_try.idx].el) \in clicked_elements
  /\ expanded_count = 0
  /\ clicks = 1

\* the positional-scroll fallback is running
InFallback == epc \in {"orig_step", "orig_click"}

\* C24 as stated: the positional-scroll fallback runs only in a region of
\* fewer than two schema rows.
Cex_C24 == InFallback => around.schema_rows < 2

\* C24 amended: the positional-scroll fallback runs only in a region of
\* fewer than two schema rows, or in which no content container is found
\* after the second schema row, or in which a driver call of the scoped
\* strategy raised; in a region of two schema rows with a content container
\* and no failing driver call it never runs.
Thm_C24 ==
  InFallback =>
    \/ around.schema_rows < 2
    \/ around.locate \in {"none", "raise"}
    \/ around.final_raise

\* the fallback clicked a collapsed element in a region of two schema rows
\* in which no content container was found
Wit_C24 ==
  /\ InFallback
  /\ around.schema_rows = 2
  /\ around.locate = "none"
  /\ last_try.clicked
  /\ orig_expanded_count = 1

\* scroll steps begun by the running fallback: at the head of its loop the
\* steps before, inside a step that one too
StepsBegun == IF epc = "orig_click" THEN step + 1 ELSE step

\* the budgets of a run of the positional-scroll fallback: at most 15 steps
\* were begun, at most 3 clicks were made in the last and at most 50 in all
FallbackBudgets ==
  InFallback =>
    /\ StepsBegun <= 15
    /\ processed_count <= 3
    /\ orig_expanded_count <= 50

\* the fallback ends
FallbackEnds == InFallback /\ epc' = "returned"

\* C25 as stated: one run of the positional-scroll fallback performs at
\* most 15 scroll steps, at most 3 successful clicks per step and never more
\* than 50 clicks, for any height and any number of collapsed nodes, and it
\* always performs at least one step.
Cex_C25 ==
  /\ []FallbackBudgets
  /\ [][FallbackEnds => current_scroll' >= scroll_step]_vars

\* C25 amended: the same budgets; the run performs at least one step unless
\* a driver call outside the per-element handler raises, which ends the run
\* at that call.
Thm_C25 ==
  /\ []FallbackBudgets
  /\ [][FallbackEnds => (current_scroll' >= scroll_step \/ around.orig_raise)]_vars

\* the 15th step of a run over a region of more collapsed nodes than the
\* budgets allow: 3 clicks in the step, 45 in all, candidates left over
Wit_C25 ==
  /\ epc = "orig_click"
  /\ step = 14
  /\ processed_count = 3
  /\ orig_expanded_count = 45
  /\ ei <= Len(cands)

\* the row of the node declares the type object or array[object]
DeclaresComposite(n) == n.ptype # NoElem /\ Lower(n.ptype) \in CompositeTypes

\* C26 as stated: every click of the type-directed passes targets a row
\* whose declared type is object or array[object] and that exposes an
\* expand affordance; rows of another or of no determinable type are never
\* clicked by these passes.
Cex_C26 ==
  (epc \in {"object", "array"} /\ last_try.idx # 0 /\ last_try.clicked) =>
    /\ region[last_try.idx].chevron
    /\ DeclaresComposite(region[last_try.idx])

\* ------------------------------------------------------------------------
\* Properties of the attempt loop (SpecAttempt)
\* ------------------------------------------------------------------------
\* positions of the running attempt at which the markup was captured, and at
\* which the engine ran
Captures == {k \in 1..Len(session) : session[k] = "capture"}
Expansions == {k \in 1..Len(session) : session[k] = "expand"}

\* C27: within one attempt the container markup is captured once, after the
\* expansion engine has returned, and nothing is done with the live session
\* after the capture until the attempt ends: no attempt captures twice, a
\* capture has the engine run before it and only session-free work after
\* it, and an attempt past its capture statement has captured exactly once.
Thm_C27 ==
  /\ Cardinality(Captures) <= 1
  /\ \A k \in Captures :
       /\ \E j \in Expansions : j < k
       /\ \A j \in (k+1)..Len(session) : session[j] \notin LiveEvents
  /\ (Expansions # {} /\ apc # "capture") => Cardinality(Captures) = 1

\* an attempt that loaded the page, found the container, ran the engine,
\* captured the markup and parsed it into fields
Wit_C27 ==
  /\ apc = "returned"
  /\ fields_data # <<>>
  /\ session = <<"get", "find", "expand", "capture", "parse">>

\* ------------------------------------------------------------------------
\* Fallbacks, levels and order of the extractor (Spec)
\* ------------------------------------------------------------------------
\* C28 as stated: when the flat-mode extraction of a snapshot yields no
\* record, the hierarchy-free fallback is run on the same snapshot, and the
\* result is its one record per distinct field name of the snapshot.
Cex_C28 ==
  (/\ xpc = "done"
   /\ path \in {"flat", "simple"}
   /\ ExtractAllFieldsFallback(snapshot).fields = <<>>)
  => result.fields = ExtractSimpleFieldsFallback(snapshot).fields

\* the ancestors of a row, among its first n, that carry a numeric level marker
Marked_Ancestors(row, n) ==
  {k \in 1..Len(row.anc) : k <= n /\ IsDigit(row.anc[k])}

\* the marker of the nearest of them, else the level the class of the
\* parent stands for, else 0
LevelBy(row, n) ==
  LET marks == Marked_Ancestors(row, n) IN
  IF marks # {} THEN ToInt(row.anc[CHOOSE k \in marks : \A j \in marks : k <= j])
  ELSE IF "sl-ml-7" \in row.pclass THEN 1
  ELSE 0

\* a flat-mode result: the levels of its rows are the detected ones
FlatDone == xpc = "done" /\ path = "flat"

\* C29 as stated: the level of a row is the numeric marker of its nearest
\* ancestor that has one, however far up; only without any is the class of
\* the parent used (sl-ml-7: 1, sl-ml-px: 0), and 0 otherwise; the level is
\* always a non-negative integer.
Cex_C29 ==
  FlatDone =>
    \A k \in 1..Len(result.hierarchy) :
      /\ result.hierarchy[k].level \in Nat
      /\ result.hierarchy[k].level
           = LevelBy(result.hierarchy[k].row, Len(result.hierarchy[k].row.anc))

\* C29 amended: the same with the nearest marked ancestor looked for among
\* the five nearest ancestors of the row only.
Thm_C29 ==
  FlatDone =>
    \A k \in 1..Len(result.hierarchy) :
      /\ result.hierarchy[k].level \in Nat
      /\ result.hierarchy[k].level = LevelBy(result.hierarchy[k].row, 5)

\* a row whose parent has no marker and the class sl-ml-7, whose third
\* ancestor is marked 2 and whose fourth 1, was given level 2
Wit_C29 ==
  /\ FlatDone
  /\ Len(result.hierarchy) = 1
  /\ result.hierarchy[1].row.anc = <<NoAttr, "x", "2", "1">>
  /\ "sl-ml-7" \in result.hierarchy[1].row.pclass
  /\ result.hierarchy[1].level = 2

\* index of the content row in the document-ordered row list (0: none)
ContentIndex == ContentFieldIndex(SchemaRows(snapshot), 1)

\* every record comes from a row at or after the content row, and the
\* records are in the document order of their rows
ScopedToContent ==
  /\ \A j \in 1..Len(result.from) :
       /\ result.from[j] >= ContentIndex
       /\ result.fields[j].original_name = SchemaRows(snapshot)[result.from[j]].name
  /\ \A j, k \in 1..Len(result.from) : j < k => result.from[j] < result.from[k]

Nameless(row) == row.name \in {NoElem, ""}

\* the row list with those rows taken out
RECURSIVE WithoutNameless(_)
WithoutNameless(rows) ==
  IF Len(rows) = 0 THEN <<>>
  ELSE (IF Nameless(Head(rows)) THEN <<>> ELSE <<Head(rows)>>)
       \o WithoutNameless(Tail(rows))

\* what the pass that produced the result makes of a row list
PassOn(rows) ==
  IF path = "content" THEN ExtractFieldsWithHierarchy(rows)
  ELSE ExtractAllFieldsFallback(rows)

\* the levels and names of field_hierarchy
Outline(h) == [k \in 1..Len(h) |-> <<h[k].level, h[k].name>>]

\* C31: a row with no field-name element or with an empty name produces no
\* record and no item of field_hierarchy, so that the naming loop never sees
\* it and the ancestor stack and the set of seen names are what they were;
\* the records, the name components, the stack depths and the pushes of all
\* other rows are those of the row list without the nameless rows.
Thm_C31 ==
  (xpc = "done" /\ path \in {"content", "flat", "rescue"}) =>
    LET without == PassOn(WithoutNameless(snapshot)) IN
    /\ \A j \in 1..Len(result.fields) : ~Nameless(snapshot[result.from[j]])
    /\ \A k \in 1..Len(result.hierarchy) : ~Nameless(result.hierarchy[k].row)
    /\ result.fields = without.fields
    /\ result.paths = without.paths
    /\ Outline(result.hierarchy) = Outline(without.hierarchy)
    /\ result.made = without.made
    /\ result.depths = without.depths
    /\ result.pushed = without.pushed

\* rows a (object, level 0), a row without a name element at level 0, and a
\* (string, level 1): the third row is still named under the first
Wit_C31 ==
  /\ xpc = "done"
  /\ path = "flat"
  /\ Len(snapshot) = 3
  /\ snapshot[2].name = NoElem
  /\ DetectLevelFromParent(snapshot[2]) = 0
  /\ Names(result.fields) = <<"a", "a_a">>
  /\ result.from = <<1, 3>>

\* ------------------------------------------------------------------------
\* The retries of _extract_fields_from_url (SpecAttempt)
\* ------------------------------------------------------------------------
\* the attempts that ended with a non-empty field list
Yielding == {k \in 1..Len(outcomes) : outcomes[k] = "fields"}

\* the call has returned
Returned == apc = "returned"

\* C32: one call of _extract_fields_from_url loads the page at most
\* max_retries times; when an attempt yields a non-empty list the call
\* returns that list, that attempt is the last one and the only one that
\* yielded; when no attempt did, the call returns the empty list after
\* max_retries loads; with max_retries = 0 there is no load and the empty
\* list is returned; and nothing is done after the return.
Thm_C32 ==
  /\ [](/\ loads <= max_retries
        /\ loads = Len(outcomes) + (IF apc \in {"find", "expand", "capture", "parse"} THEN 1 ELSE 0)
        /\ Yielding \subseteq {Len(outcomes)}
        /\ Yielding # {} => Returned
        /\ (Returned /\ Yielding # {}) => fields_data \in FieldLists
        /\ (Returned /\ Yielding = {}) => (fields_data = <<>> /\ loads = max_retries)
        /\ max_retries = 0 => (loads = 0 /\ apc \in {"loop", "returned"}))
  /\ [][~Returned]_vars

\* with two attempts allowed, the first attempt yielded nothing and the
\* second a field list, which was returned after two page loads
Wit_C32 ==
  /\ Returned
  /\ max_retries = 2
  /\ outcomes = <<"empty", "fields">>
  /\ loads = 2
  /\ fields_data = <<"f1", "f2">>

\* with two or more attempts allowed, the first attempt yielded a field list: it
\* was returned after one page load
Wit_C32_First ==
  /\ Returned
  /\ max_retries >= 2
  /\ outcomes = <<"fields">>
  /\ loads = 1

\* with no attempt allowed the empty list was returned without a page load
Wit_C32_Zero ==
  /\ Returned
  /\ max_retries = 0
  /\ loads = 0
  /\ fields_data = <<>>

\* ------------------------------------------------------------------------
\* The result map of extract_api_documentation (SpecRun)
\* ------------------------------------------------------------------------
\* the entry has a non-empty table name and a non-empty url
Complete(entry) == entry.table # "" /\ entry.url # ""

\* the table names of the complete entries among the first n
CompleteNames(n) ==
  {tables_data[k].table : k \in {j \in 1..n : j <= Len(tables_data) /\ Complete(tables_data[j])}}

\* the entry the loop is at is an incomplete one
AtIncomplete == rpc = "table" /\ ti <= Len(tables_data) /\ ~Complete(tables_data[ti])

\* the step loads a page, records a key or writes a file
Works ==
  \/ attempt' # attempt
  \/ fields_data' # fields_data
  \/ extracted_data' # extracted_data
  \/ files' # files
  \/ visits' # visits

\* C33: the keys of the mapping are at every moment the table names of the
\* complete entries processed so far, and of all complete entries of the
\* input when the mapping is returned; the files are files of such tables;
\* an attempt, a key or a file is only made for a complete entry, and at an
\* incomplete entry the loop moves to the next entry and does nothing else.
Thm_C33 ==
  /\ [](/\ rpc \in {"start", "table", "failed"} => DOMAIN extracted_data = CompleteNames(ti - 1)
        /\ rpc \in {"attempt", "got"} =>
             (Complete(tables_data[ti]) /\ DOMAIN extracted_data = CompleteNames(ti - 1))
        /\ rpc = "done" =>
             (ti = Len(tables_data) + 1 /\ DOMAIN extracted_data = CompleteNames(Len(tables_data)))
        /\ DOMAIN files \subseteq {FileName(n) : n \in CompleteNames(Len(tables_data))})
  /\ [][Works => (ti <= Len(tables_data) /\ Complete(tables_data[ti]))]_vars
  /\ [][AtIncomplete =>
          (ti' = ti + 1 /\ rpc' = rpc /\ ~Works /\ driver' = driver /\ surfaced' = surfaced)]_vars

\* the first entry has no url and the second is complete: the returned
\* mapping has the key of the second only, and its file was written
Wit_C33 ==
  /\ rpc = "done"
  /\ Len(tables_data) = 2
  /\ tables_data[1] = [table |-> "t1", url |-> ""]
  /\ tables_data[2].table = "t2"
  /\ DOMAIN extracted_data = {"t2"}
  /\ DOMAIN files = {FileName("t2")}
  /\ Len(visits) = 1

\* ------------------------------------------------------------------------
\* Depth of the ancestor stack (Spec)
\* ------------------------------------------------------------------------
\* length of parent_stack after the k-th item of field_hierarchy was handled
StackAfter(k) == result.depths[k] + (IF result.pushed[k] THEN 1 ELSE 0)

\* C34: in the hierarchical pass and in the flat pass parent_stack never
\* holds more than 10 names, neither after the pops nor after the push of
\* an item, and the name of every record is prefixed with at most as many
\* ancestor names as its hierarchy_level, on every row list, whether its
\* levels are well nested or not.
Thm_C34 ==
  (xpc = "done" /\ path \in {"content", "flat", "rescue"}) =>
    /\ \A k \in 1..Len(result.made) :
         /\ result.depths[k] <= MaxPushLevel
         /\ StackAfter(k) <= MaxPushLevel
    /\ \A j \in 1..Len(result.fields) :
         /\ result.fields[j].hierarchy_level \in Nat
         /\ Len(result.paths[j]) - 1 <= result.fields[j].hierarchy_level

\* the chain of twelve objects: the object at level 9 made the stack ten
\* names long, the objects at levels 10 and 11 were named under ten
\* ancestors and were not pushed
Wit_C34 ==
  /\ xpc = "done"
  /\ path = "flat"
  /\ snapshot = DeepFixture
  /\ Len(result.fields) = 12
  /\ StackAfter(10) = 10
  /\ result.depths[11] = 10 /\ ~result.pushed[11]
  /\ result.depths[12] = 10 /\ ~result.pushed[12]
  /\ Len(result.paths[12]) = 11
  /\ result.fields[12].hierarchy_level = 11

\* rows at levels 2, 0, 10: the levels jump and the third row, whose
\* level is 10, is named under the one ancestor that is on the stack
Wit_C34_Jump ==
  /\ xpc = "done"
  /\ path = "flat"
  /\ Len(result.fields) = 3
  /\ result.fields[1].hierarchy_level = 2
  /\ result.fields[2].hierarchy_level = 0
  /\ result.fields[3].hierarchy_level = 10
  /\ Len(result.paths[3]) = 2

\* ------------------------------------------------------------------------
\* Lifecycle of the driver (SpecDriver)
\* ------------------------------------------------------------------------
\* close_driver has returned and no driver was initialised since
ClosedSince ==
  \E k \in 1..Len(dlog) :
    /\ dlog[k] \in CloseEvents
    /\ \A j \in (k + 1)..Len(dlog) : dlog[j] \notin InitEvents

\* the step is a close_driver call that returns
CloseReturns == \E e \in CloseEvents : dlog' = Append(dlog, e)

\* the step is a page load of extract_api_documentation
Loads == dlog' = Append(dlog, "load")

\* the last thing extract_api_documentation did with the driver before its
\* loop: it found it active, or initialised it
Prepared ==
  \E k \in 1..Len(dlog) :
    /\ dlog[k] \in {"extract:active", "extract:init"}
    /\ \A j \in (k + 1)..Len(dlog) : dlog[j] = "load"

\* C35: when close_driver returns the driver reference is None, also when
\* quit() raised; a close_driver that finds it None calls no quit() and
\* changes nothing; from the return of close_driver until a driver is
\* initialised again the reference stays None and is_driver_active answers
\* false; and extract_api_documentation loads a page only after it found
\* the driver active or initialised one, entering its loop from a driver
\* that is not active only through a successful initialize_driver.
Thm_C35 ==
  /\ [](ClosedSince => (driver = "none" /\ ~IsDriverActive(driver)))
  /\ [](dpc = "extract" => (Prepared /\ driver # "none"))
  /\ [][CloseReturns => driver' = "none"]_vars
  /\ [][(CloseReturns /\ driver = "none") =>
          (dlog' = Append(dlog, "close:noop") /\ quits' = quits /\ driver' = driver)]_vars
  /\ [][dlog' = Append(dlog, "active:yes") => (IsDriverActive(driver) /\ ~ClosedSince)]_vars
  /\ [][Loads => (Prepared /\ driver # "none")]_vars
  /\ [][(dpc = "ready" /\ dpc' = "extract" /\ ~IsDriverActive(driver)) =>
          (dlog' = Append(dlog, "extract:init") /\ IsDriverActive(driver'))]_vars

\* a driver was initialised, quit() raised in close_driver, a second
\* close_driver found nothing to close, and is_driver_active answered false
Wit_C35 ==
  /\ dlog = <<"init:ok", "close:quit_raised", "close:noop", "active:no">>
  /\ driver = "none"
  /\ quits = 1

\* after a close_driver, extract_api_documentation initialised a driver and
\* loaded a page
Wit_C35_Extract ==
  /\ Len(dlog) = 4
  /\ dlog[2] \in CloseEvents
  /\ dlog[3] = "extract:init"
  /\ dlog[4] = "load"
  /\ driver # "none"

\* ------------------------------------------------------------------------
\* camel_to_snake_case applied to its own output (SpecNormalize)
\* ------------------------------------------------------------------------
\* C36: camel_to_snake_case returns its own output unchanged, and its
\* output holds no upper-case letter, no two underscores in a row and no
\* underscore at its start or end.
Thm_C36 ==
  (wpc = "done" /\ wout.kind = "name") =>
    LET out == wout.value IN
    /\ camel_to_snake_case(out) = out
    /\ \A k \in 1..Len(out) : ~IsUpper(out[k])
    /\ \A k \in 1..(Len(out) - 1) : ~(out[k] = "_" /\ out[k + 1] = "_")
    /\ out # <<>> => (out[1] # "_" /\ out[Len(out)] # "_")

\* the name A__B, with upper-case letters and two underscores in a row,
\* was converted to a_b
Wit_C36 ==
  /\ wpc = "done"
  /\ wname = <<"A", "_", "_", "B">>
  /\ wout = Wrapped("name", <<"a", "_", "b">>)

\* the name _aB_, with an underscore at each end, was converted to a_b
Wit_C36_Ends ==
  /\ wpc = "done"
  /\ wname = <<"_", "a", "B", "_">>
  /\ wout = Wrapped("name", <<"a", "_", "b">>)

\* ------------------------------------------------------------------------
\* The input of normalize_field_names after the call (SpecNormalize)
\* ------------------------------------------------------------------------
\* the step is a call of normalize_field_names that returns
NormalizeCall == wpc = "data" /\ wpc' = "done"

\* the items of the field list of a file content
ItemsOf(data) == data["fields"].items

\* C37: when normalize_field_names returns, the dict it was given holds the
\* keys and values it held at the call: no key was added to it, its field
\* list has the same length, and every field of the list has its name as
\* given and no original_field_name key that it did not have; when a name
\* raises inside the function, the object returned is the one that was
\* given, with what it held at the call. What the function returns is what
\* the returned object holds.
Thm_C37 ==
  [][NormalizeCall =>
       /\ wdata' = wdata
       /\ DOMAIN wdata'.value = DOMAIN wdata.value
       /\ HasFieldList(wdata.value) =>
            /\ HasFieldList(wdata'.value)
            /\ Len(ItemsOf(wdata'.value)) = Len(ItemsOf(wdata.value))
            /\ \A k \in 1..Len(ItemsOf(wdata.value)) :
                 Eligible(ItemsOf(wdata.value)[k]) =>
                   /\ ItemsOf(wdata'.value)[k].d["name"] = ItemsOf(wdata.value)[k].d["name"]
                   /\ DOMAIN ItemsOf(wdata'.value)[k].d = DOMAIN ItemsOf(wdata.value)[k].d
       /\ \E date \in Dates : wout'.value = ReturnedValue(wdata.value, date)
       /\ (HasFieldList(wdata.value) /\ NormalizeRaisesOn(wdata.value)) =>
            /\ wout'.value = wdata.value
            /\ \A date \in Dates : NormalizeOnObjects(wdata.value, date).ret = DataRef
    ]_vars

\* a file with the one field aB was normalised: the returned dict has the
\* field a_b with original_field_name and the two stamps, the dict given
\* has the field aB without that key and no stamp
Wit_C37 ==
  /\ wpc = "done"
  /\ wout.kind = "normalized"
  /\ ItemsOf(wdata.value) = <<Dict([name |-> Val(<<"a", "B">>), field_type |-> Val(<<"s">>)])>>
  /\ ItemsOf(wout.value)[1].d["name"] = Val(<<"a", "_", "b">>)
  /\ "original_field_name" \in DOMAIN ItemsOf(wout.value)[1].d
  /\ "processing_date" \in DOMAIN wout.value
  /\ "processing_date" \notin DOMAIN wdata.value

\* a file whose second field has a name that is not a string: the call
\* returned the dict it was given, the first field still named aB
Wit_C37_Raised ==
  /\ wpc = "done"
  /\ wout.kind = "unchanged"
  /\ Len(ItemsOf(wdata.value)) = 2
  /\ ItemsOf(wdata.value)[1] = Dict([name |-> Val(<<"a", "B">>), field_type |-> Val(<<"s">>)])
  /\ ~ItemsOf(wdata.value)[2].d["name"].str
  /\ wout.value = wdata.value

\* ------------------------------------------------------------------------
\* The files a DataWrangler reads and writes (SpecWrangle)
\* ------------------------------------------------------------------------
\* the path lies in the out subdirectory of the data directory
UnderOut(p) == Len(p) > Len(OutputPath) /\ SubSeq(p, 1, Len(OutputPath)) = OutputPath

\* the files of the data directory that detect_files finds when the
\* DataWrangler is created
InputFiles == DetectFiles(fs0, "json") \cup DetectFiles(fs0, "txt")

\* every write went into out, every input file holds what it held, and no
\* file of out was detected
InputsKept ==
  /\ \A p \in written : UnderOut(p)
  /\ \A p \in InputFiles : p \in DOMAIN fs /\ fs[p] = fs0[p]
  /\ \A p \in detected : ~UnderOut(p) /\ p \notin written

\* C38 as stated: process_files and normalize_single_file write only into
\* the out subdirectory of the data directory, every file detected as input
\* is left unchanged, and no file written to out is detected as input by a
\* later detect_files or process_files.
Cex_C38 == InputsKept

\* every filename given to normalize_single_file so far was the name of a
\* file, with no directory in it
OnlyFileNames == \A f \in asked : ~f.abs /\ Len(f.parts) = 1

\* the same holds as long as normalize_single_file is given file names
InputsKept_FileNames == OnlyFileNames => InputsKept

\* normalize_single_file was given the absolute path of the input file
\* x.json and wrote its normalisation over it
Overwritten ==
  /\ [abs |-> TRUE, parts |-> <<"data", "x.json">>] \in asked
  /\ <<"data", "x.json">> \in written
  /\ <<"data", "x.json">> \in DOMAIN fs0
  /\ fs0[<<"data", "x.json">>] = Extracted("x")
  /\ fs[<<"data", "x.json">>] = NormalizedFile(Extracted("x"))

====
